---- MODULE Spec2Model ----
(***************************************************************************)
(* A model of nostr-crdt's replication engine (src/src/nostr/crdt.rs):     *)
(* the three replicated types LWWRegister, GCounter and GSet, and the      *)
(* CrdtManager that applies a mutation locally, publishes it with bounded  *)
(* retry and merges inbound events through process_event.                  *)
(*                                                                         *)
(* HashMap<String, T> is a function whose DOMAIN is the set of keys        *)
(* present.  Option<T> is <<>> (None) or <<x>> (Some(x)).  A u64 on which  *)
(* arithmetic is done (the counter totals) is kept at its full width as    *)
(* NumLimbs little-endian limbs of LimbBits bits; u64 values that are only *)
(* compared (timestamps) are small naturals.                               *)
(***************************************************************************)
EXTENDS Integers, Sequences, FiniteSets, Bags, TLC

VARIABLES
    registers,        \* [device -> LWWRegister.registers : key -> (value, timestamp)]
    counters,         \* [device -> GCounter.counters : key -> u64]
    sets,             \* [device -> GSet.sets : key -> Vec<String>]
    overflow_checks,  \* build profile: TRUE = overflow panics, FALSE = it wraps
    panicked,         \* devices whose applying thread unwound in a panic
    pool,             \* merge tests: the operations both devices are given
    applied,          \* [device -> set of operations applied with Ok]
    applied_count,    \* [device -> bag of operations applied with Ok]
    first_applied,    \* [device -> key -> Option<first operation applied to key>]
    last,             \* the most recent apply_operation call and its outcome
    keys_of,          \* [device -> identity of the manager's signer and keys]
    poisoned,         \* devices whose g_counters mutex a panic has poisoned
    calls,            \* [device -> the mutation call in flight on the device]
    ingest,           \* [device -> the process_event call in flight on the device]
    net,              \* events the relays have accepted
    delivered,        \* [device -> bag of event ids handed to process_event]
    ncalls,           \* mutation calls started so far
    next_id,          \* events built so far
    locks,            \* [device -> mutex -> "free" or the task that holds it]
    paginator,        \* the EventPaginator: its fields and what its last call did
    merged            \* [device -> bag of event ids whose operation process_event applied with Ok]

typeVars == <<registers, counters, sets>>
buildVars == <<overflow_checks, panicked>>
ghostVars == <<pool, applied, applied_count, first_applied, last>>
managerVars == <<keys_of, merged, paginator, poisoned, calls, ingest, net, delivered, ncalls, next_id, locks>>

(***************************************************************************)
(* Bounds of the model and the input domains.                              *)
(***************************************************************************)
MaxTs == 2
MaxOps == 3
MaxPool == 2
MaxCount == 3
MaxMergeCount == 2
MaxCalls == 1
MaxDeliver == 1
MaxMixed == 2
MaxIngest == 1

Replicas == {"d1", "d2"}
Keys == {"k1", "k2"}
Values == {"a", "b"}
Timestamps == 0..MaxTs

None == <<>>
Some(x) == <<x>>

(***************************************************************************)
(* u64 arithmetic at full width.                                           *)
(***************************************************************************)
U64Bits == 64
LimbBits == U64Bits \div 4
LimbBase == 2^LimbBits
NumLimbs == U64Bits \div LimbBits

U64(n) == [i \in 1..NumLimbs |-> IF i = 1 THEN n ELSE 0]
U64Max == [i \in 1..NumLimbs |-> LimbBase - 1]

RECURSIVE AddFrom(_, _, _, _)
AddFrom(a, b, i, carry) ==
    IF i > Len(a) THEN <<carry>>
    ELSE LET s == a[i] + b[i] + carry
         IN  <<s % LimbBase>> \o AddFrom(a, b, i + 1, s \div LimbBase)

\* a + b on u64: the wrapped sum and whether the true sum left the range.
U64Add(a, b) ==
    LET full == AddFrom(a, b, 1, 0)
    IN  [wrapped |-> SubSeq(full, 1, NumLimbs), overflow |-> full[NumLimbs + 1] # 0]

RECURSIVE LimbsLess(_, _, _)
LimbsLess(a, b, i) ==
    IF i = 0 THEN FALSE
    ELSE IF a[i] # b[i] THEN a[i] < b[i]
    ELSE LimbsLess(a, b, i - 1)
U64Less(a, b) == LimbsLess(a, b, Len(a))
U64Leq(a, b) == a = b \/ U64Less(a, b)

IsZero(a) == \A i \in 1..Len(a) : a[i] = 0

\* Long division of a limb sequence by ten, most significant limb first.
RECURSIVE DivTenFrom(_, _, _)
DivTenFrom(a, i, rem) ==
    IF i = 0 THEN [q |-> <<>>, r |-> rem]
    ELSE LET cur == rem * LimbBase + a[i]
             rest == DivTenFrom(a, i - 1, cur % 10)
         IN  [q |-> rest.q \o <<cur \div 10>>, r |-> rest.r]
DivTen(a) == DivTenFrom(a, Len(a), 0)

Digit(d) == <<"0", "1", "2", "3", "4", "5", "6", "7", "8", "9">>[d + 1]

RECURSIVE DecimalDigits(_)
DecimalDigits(a) ==
    IF IsZero(a) THEN ""
    ELSE LET d == DivTen(a) IN DecimalDigits(d.q) \o Digit(d.r)

\* u64::to_string
u64_to_string(a) == IF IsZero(a) THEN "0" ELSE DecimalDigits(a)

(***************************************************************************)
(* Operations (CrdtOperation).                                             *)
(***************************************************************************)
Amounts == {U64(0), U64(1), U64(2), U64(3), U64Max}

LwwOps == [type : {"LWWRegister"}, key : Keys, value : Values, timestamp : Timestamps]
CounterOps == [type : {"GCounter"}, key : Keys, increment : Amounts]
SetOps == [type : {"GSet"}, key : Keys, value : Values, action : {"Add"}]
CrdtOperation == LwwOps \cup CounterOps \cup SetOps

Insert(map, k, v) == [x \in DOMAIN map \cup {k} |-> IF x = k THEN v ELSE map[x]]
EmptyMap == [x \in {} |-> None]

(***************************************************************************)
(* LWWRegister.                                                            *)
(***************************************************************************)
\* Variants of the merge rule, each a slip the rule could contain.
LWWRegister_apply_operation_TieOverwrites(self, op) ==
    IF op.type = "LWWRegister"
    THEN IF op.key \in DOMAIN self /\ self[op.key].timestamp > op.timestamp
         THEN [state |-> self, result |-> "Ok"]
         ELSE [state |-> Insert(self, op.key,
                                [value |-> op.value, timestamp |-> op.timestamp]),
               result |-> "Ok"]
    ELSE [state |-> self, result |-> "InvalidOperation"]

LWWRegister_apply_operation_NoCompare(self, op) ==
    IF op.type = "LWWRegister"
    THEN [state |-> Insert(self, op.key,
                           [value |-> op.value, timestamp |-> op.timestamp]),
          result |-> "Ok"]
    ELSE [state |-> self, result |-> "InvalidOperation"]

LWWRegister_apply_operation_TieByValue(self, op) ==
    IF op.type = "LWWRegister"
    THEN IF /\ op.key \in DOMAIN self
            /\ \/ self[op.key].timestamp > op.timestamp
               \/ /\ self[op.key].timestamp = op.timestamp
                  /\ (self[op.key].value = "b" \/ op.value = "a")
         THEN [state |-> self, result |-> "Ok"]
         ELSE [state |-> Insert(self, op.key,
                                [value |-> op.value, timestamp |-> op.timestamp]),
               result |-> "Ok"]
    ELSE [state |-> self, result |-> "InvalidOperation"]

LWWRegister_apply_operation_OneSlot(self, op) ==
    IF op.type = "LWWRegister"
    THEN IF op.key \in DOMAIN self /\ self[op.key].timestamp >= op.timestamp
         THEN [state |-> self, result |-> "Ok"]
         ELSE [state |-> Insert(EmptyMap, op.key,
                                [value |-> op.value, timestamp |-> op.timestamp]),
               result |-> "Ok"]
    ELSE [state |-> self, result |-> "InvalidOperation"]

LWWRegister_apply_operation(self, op) ==
    IF op.type = "LWWRegister"
    THEN IF op.key \in DOMAIN self /\ self[op.key].timestamp >= op.timestamp
         THEN [state |-> self, result |-> "Ok"]
         ELSE [state |-> Insert(self, op.key,
                                [value |-> op.value, timestamp |-> op.timestamp]),
               result |-> "Ok"]
    ELSE [state |-> self, result |-> "InvalidOperation"]

LWWRegister_get_value(self, key) ==
    IF key \in DOMAIN self THEN Some(self[key].value) ELSE None

(***************************************************************************)
(* GCounter.  `*count += increment` on u64 panics on overflow in a build   *)
(* with overflow checks (the dev profile) and wraps in one without (the    *)
(* release profile); entry(key).or_insert(0) has run before either.        *)
(***************************************************************************)
GCounter_apply_operation_Assign(self, op) ==
    IF op.type = "GCounter"
    THEN [state |-> Insert(self, op.key, op.increment), result |-> "Ok"]
    ELSE [state |-> self, result |-> "InvalidOperation"]

GCounter_apply_operation_Max(self, op) ==
    IF op.type = "GCounter"
    THEN LET count == IF op.key \in DOMAIN self THEN self[op.key] ELSE U64(0)
         IN  [state |-> Insert(self, op.key,
                               IF U64Less(count, op.increment) THEN op.increment ELSE count),
              result |-> "Ok"]
    ELSE [state |-> self, result |-> "InvalidOperation"]

GCounter_apply_operation_EntryFirst(self, op) ==
    LET count == IF op.key \in DOMAIN self THEN self[op.key] ELSE U64(0)
        sum == IF op.type = "GCounter" THEN U64Add(count, op.increment)
               ELSE [wrapped |-> count, overflow |-> FALSE]
    IN  IF op.type # "GCounter"
        THEN [state |-> Insert(self, op.key, count), result |-> "InvalidOperation"]
        ELSE IF sum.overflow /\ overflow_checks
             THEN [state |-> Insert(self, op.key, count), result |-> "panic"]
             ELSE [state |-> Insert(self, op.key, sum.wrapped), result |-> "Ok"]

GCounter_apply_operation(self, op) ==
    IF op.type = "GCounter"
    THEN LET count == IF op.key \in DOMAIN self THEN self[op.key] ELSE U64(0)
             sum == U64Add(count, op.increment)
         IN  IF sum.overflow /\ overflow_checks
             THEN [state |-> Insert(self, op.key, count), result |-> "panic"]
             ELSE [state |-> Insert(self, op.key, sum.wrapped), result |-> "Ok"]
    ELSE [state |-> self, result |-> "InvalidOperation"]

GCounter_get_value(self, key) ==
    IF key \in DOMAIN self THEN Some(u64_to_string(self[key])) ELSE None

(***************************************************************************)
(* GSet.  get_value renders the Vec<String> as a JSON array.               *)
(***************************************************************************)
Contains(seq, x) == \E i \in 1..Len(seq) : seq[i] = x

GSet_apply_operation_AlwaysPush(self, op) ==
    IF op.type = "GSet" /\ op.action = "Add"
    THEN LET set == IF op.key \in DOMAIN self THEN self[op.key] ELSE <<>>
         IN  [state |-> Insert(self, op.key, Append(set, op.value)), result |-> "Ok"]
    ELSE [state |-> self, result |-> "InvalidOperation"]

GSet_apply_operation_Replace(self, op) ==
    IF op.type = "GSet" /\ op.action = "Add"
    THEN [state |-> Insert(self, op.key, <<op.value>>), result |-> "Ok"]
    ELSE [state |-> self, result |-> "InvalidOperation"]

GSet_apply_operation_PushFront(self, op) ==
    IF op.type = "GSet" /\ op.action = "Add"
    THEN LET set == IF op.key \in DOMAIN self THEN self[op.key] ELSE <<>>
         IN  [state |-> Insert(self, op.key,
                               IF Contains(set, op.value) THEN set
                               ELSE <<op.value>> \o set),
              result |-> "Ok"]
    ELSE [state |-> self, result |-> "InvalidOperation"]

GSet_apply_operation(self, op) ==
    IF op.type = "GSet" /\ op.action = "Add"
    THEN LET set == IF op.key \in DOMAIN self THEN self[op.key] ELSE <<>>
         IN  [state |-> Insert(self, op.key,
                               IF Contains(set, op.value) THEN set
                               ELSE Append(set, op.value)),
              result |-> "Ok"]
    ELSE [state |-> self, result |-> "InvalidOperation"]

RECURSIVE JsonElements(_, _)
JsonElements(seq, i) ==
    IF i > Len(seq) THEN ""
    ELSE (IF i > 1 THEN "," ELSE "") \o "\"" \o seq[i] \o "\"" \o JsonElements(seq, i + 1)

\* serde_json::to_string(&Vec<String>)
vec_to_json(seq) == "[" \o JsonElements(seq, 1) \o "]"

GSet_get_value(self, key) ==
    IF key \in DOMAIN self THEN Some(vec_to_json(self[key])) ELSE None

(***************************************************************************)
(* The unit-test harness of one LWWRegister (tests::test_lww_register):    *)
(* device d1 applies operations one after another.                         *)
(***************************************************************************)
NoLast == [kind |-> "none"]

(***************************************************************************)
(* CrdtManager: placeholders of a call that has not started.               *)
(***************************************************************************)
Identities == {"alice", "bob"}
NoOp == [type |-> "none"]
NoEvent == [id |-> 0]
IdleCall == [pc |-> "idle", op |-> NoOp, retry_count |-> 0, event |-> NoEvent,
             result |-> "none", local |-> "none", attempts |-> 0, sleeps |-> 0]
IdleIngest == [pc |-> "idle", event |-> NoEvent, op |-> NoOp, result |-> "none"]
\* No EventPaginator has been constructed.
NoPaginator == [done |-> FALSE]
LockNames == {"lww_registers", "g_counters", "g_sets"}
FreeLocks == [l \in LockNames |-> "free"]

InitManagerIdle ==
    /\ keys_of = [d \in Replicas |-> "alice"]
    /\ merged = [d \in Replicas |-> EmptyBag]
    /\ paginator = NoPaginator
    /\ poisoned = {}
    /\ calls = [d \in Replicas |-> IdleCall]
    /\ ingest = [d \in Replicas |-> IdleIngest]
    /\ net = {}
    /\ delivered = [d \in Replicas |-> EmptyBag]
    /\ ncalls = 0
    /\ next_id = 0
    /\ locks = [d \in Replicas |-> FreeLocks]


InitTypes ==
    /\ registers = [d \in Replicas |-> EmptyMap]
    /\ counters = [d \in Replicas |-> EmptyMap]
    /\ sets = [d \in Replicas |-> EmptyMap]

InitGhost ==
    /\ pool = {}
    /\ applied = [d \in Replicas |-> {}]
    /\ applied_count = [d \in Replicas |-> EmptyBag]
    /\ first_applied = [d \in Replicas |-> [k \in Keys |-> None]]
    /\ last = NoLast

InitLww ==
    /\ InitTypes
    /\ InitGhost
    /\ overflow_checks = FALSE
    /\ panicked = {}
    /\ InitManagerIdle

LwwApply(d, op) ==
    LET r == LWWRegister_apply_operation(registers[d], op)
    IN  /\ (op \in applied[d] \/ Cardinality(applied[d]) < MaxOps)
        /\ registers' = [registers EXCEPT ![d] = r.state]
        /\ applied' = [applied EXCEPT ![d] = IF r.result = "Ok" THEN @ \cup {op} ELSE @]
        /\ last' = [kind |-> "lww", dev |-> d, op |-> op,
                    before |-> registers[d], seen |-> applied[d], result |-> r.result]
        /\ UNCHANGED <<counters, sets, buildVars, pool, applied_count, first_applied, managerVars>>

NextLww == \E op \in CrdtOperation : LwwApply("d1", op)

vars == <<registers, counters, sets, overflow_checks, panicked,
          pool, applied, applied_count, first_applied, last,
          keys_of, merged, paginator, poisoned, calls, ingest, net, delivered, ncalls, next_id, locks>>

SpecLww == InitLww /\ [][NextLww]_vars

(***************************************************************************)
(* The merge test of two LWWRegister devices (main, "LWW-Register merge    *)
(* test"): both devices are given the same operations and each applies     *)
(* them in an order of its own, any of them any number of times.           *)
(***************************************************************************)
InitLwwMerge ==
    /\ InitTypes
    /\ pool \in {S \in SUBSET LwwOps : Cardinality(S) >= 1 /\ Cardinality(S) <= MaxPool}
    /\ applied = [d \in Replicas |-> {}]
    /\ applied_count = [d \in Replicas |-> EmptyBag]
    /\ first_applied = [d \in Replicas |-> [k \in Keys |-> None]]
    /\ last = NoLast
    /\ overflow_checks = FALSE
    /\ panicked = {}
    /\ InitManagerIdle

LwwMergeApply(d, op) ==
    LET r == LWWRegister_apply_operation(registers[d], op)
    IN  /\ op \in pool
        /\ registers' = [registers EXCEPT ![d] = r.state]
        /\ applied' = [applied EXCEPT ![d] = @ \cup {op}]
        /\ first_applied' = [first_applied EXCEPT ![d][op.key] =
                                IF @ = None THEN Some(op) ELSE @]
        /\ UNCHANGED <<counters, sets, buildVars, pool, applied_count, last, managerVars>>

NextLwwMerge == \E d \in Replicas, op \in LwwOps : LwwMergeApply(d, op)

SpecLwwMerge == InitLwwMerge /\ [][NextLwwMerge]_vars

(***************************************************************************)
(* The unit-test harness of one GCounter (tests::test_g_counter): device   *)
(* d1 applies operations one after another until its thread panics.        *)
(***************************************************************************)
InitCounter ==
    /\ InitTypes
    /\ InitGhost
    /\ overflow_checks \in BOOLEAN
    /\ panicked = {}
    /\ InitManagerIdle

CounterApply(d, op) ==
    LET r == GCounter_apply_operation(counters[d], op)
    IN  /\ d \notin panicked
        /\ BagCardinality(applied_count[d]) < MaxCount
        /\ counters' = [counters EXCEPT ![d] = r.state]
        /\ panicked' = IF r.result = "panic" THEN panicked \cup {d} ELSE panicked
        /\ applied_count' = [applied_count EXCEPT ![d] =
                                IF r.result = "Ok" THEN @ (+) SetToBag({op}) ELSE @]
        /\ last' = [kind |-> "gc", dev |-> d, op |-> op,
                    before |-> counters[d], seen |-> applied_count[d], result |-> r.result]
        /\ UNCHANGED <<registers, sets, overflow_checks, pool, applied, first_applied, managerVars>>

NextCounter == \E op \in CrdtOperation : CounterApply("d1", op)

SpecCounter == InitCounter /\ [][NextCounter]_vars

(***************************************************************************)
(* The merge test of two GCounter devices (main, "G-Counter merge test"):  *)
(* each device applies increments in an order of its own.                  *)
(***************************************************************************)
CounterMergeApply(d, op) ==
    LET r == GCounter_apply_operation(counters[d], op)
    IN  /\ d \notin panicked
        /\ BagCardinality(applied_count[d]) < MaxMergeCount
        /\ counters' = [counters EXCEPT ![d] = r.state]
        /\ panicked' = IF r.result = "panic" THEN panicked \cup {d} ELSE panicked
        /\ applied_count' = [applied_count EXCEPT ![d] =
                                IF r.result = "Ok" THEN @ (+) SetToBag({op}) ELSE @]
        /\ first_applied' = [first_applied EXCEPT ![d][op.key] =
                                IF @ = None /\ r.result = "Ok" THEN Some(op) ELSE @]
        /\ UNCHANGED <<registers, sets, overflow_checks, pool, applied, last, managerVars>>

NextCounterMerge == \E d \in Replicas, op \in CounterOps : CounterMergeApply(d, op)

SpecCounterMerge == InitCounter /\ [][NextCounterMerge]_vars

(***************************************************************************)
(* The unit-test harness of one GSet (tests::test_g_set): device d1        *)
(* applies operations one after another.                                   *)
(***************************************************************************)
SetApply(d, op) ==
    LET r == GSet_apply_operation(sets[d], op)
    IN  /\ (op \in applied[d] \/ Cardinality(applied[d]) < MaxOps)
        /\ sets' = [sets EXCEPT ![d] = r.state]
        /\ applied' = [applied EXCEPT ![d] = IF r.result = "Ok" THEN @ \cup {op} ELSE @]
        /\ last' = [kind |-> "gs", dev |-> d, op |-> op,
                    before |-> sets[d], seen |-> applied[d], result |-> r.result]
        /\ UNCHANGED <<registers, counters, buildVars, pool, applied_count, first_applied,
                       managerVars>>

NextSet == \E op \in CrdtOperation : SetApply("d1", op)

SpecSet == InitLww /\ [][NextSet]_vars

(***************************************************************************)
(* The merge test of two GSet devices (main, "G-Set merge test"): both     *)
(* devices are given the same additions and each applies them in an order  *)
(* of its own, any of them any number of times.                            *)
(***************************************************************************)
InitSetMerge ==
    /\ InitTypes
    /\ pool \in {S \in SUBSET SetOps : Cardinality(S) >= 1 /\ Cardinality(S) <= MaxOps}
    /\ applied = [d \in Replicas |-> {}]
    /\ applied_count = [d \in Replicas |-> EmptyBag]
    /\ first_applied = [d \in Replicas |-> [k \in Keys |-> None]]
    /\ last = NoLast
    /\ overflow_checks = FALSE
    /\ panicked = {}
    /\ InitManagerIdle

SetMergeApply(d, op) ==
    LET r == GSet_apply_operation(sets[d], op)
    IN  /\ op \in pool
        /\ sets' = [sets EXCEPT ![d] = r.state]
        /\ applied' = [applied EXCEPT ![d] = @ \cup {op}]
        /\ UNCHANGED <<registers, counters, buildVars, pool, applied_count, first_applied,
                       last, managerVars>>

NextSetMerge == \E d \in Replicas, op \in SetOps : SetMergeApply(d, op)

SpecSetMerge == InitSetMerge /\ [][NextSetMerge]_vars

(***************************************************************************)
(* The demo's G-Set merge test as it is written: the three additions of    *)
(* "A", "B" and "C" under the key "test_set", applied by each of the two   *)
(* devices in an order of its own (A,B,C and C,A,B in the demo).           *)
(***************************************************************************)
DemoValues == {"A", "B", "C"}
DemoOps == [type : {"GSet"}, key : {"test_set"}, value : DemoValues, action : {"Add"}]

InitSetDemo ==
    /\ InitTypes
    /\ pool = DemoOps
    /\ applied = [d \in Replicas |-> {}]
    /\ applied_count = [d \in Replicas |-> EmptyBag]
    /\ first_applied = [d \in Replicas |-> [k \in Keys |-> None]]
    /\ last = NoLast
    /\ overflow_checks = FALSE
    /\ panicked = {}
    /\ InitManagerIdle

NextSetDemo == \E d \in Replicas, op \in DemoOps : SetMergeApply(d, op)

SpecSetDemo == InitSetDemo /\ [][NextSetDemo]_vars

(***************************************************************************)
(* The CrdtState trait: one device holding a register, a counter and a     *)
(* set is handed operations of every variant, each to any of the three     *)
(* apply_operation implementations.                                        *)
(***************************************************************************)
MixedOps == {op \in CrdtOperation : op.key = "k1"}

MixedRoom(d) == Cardinality(applied[d]) + BagCardinality(applied_count[d]) < MaxMixed

ApplyToRegister(d, op) == MixedRoom(d) /\ LwwApply(d, op)

ApplyToCounter(d, op) == MixedRoom(d) /\ CounterApply(d, op)

ApplyToSet(d, op) == MixedRoom(d) /\ SetApply(d, op)

NextApply ==
    \E op \in MixedOps :
        \/ ApplyToRegister("d1", op)
        \/ ApplyToCounter("d1", op)
        \/ ApplyToSet("d1", op)

SpecApply == InitCounter /\ [][NextApply]_vars

(***************************************************************************)
(* The same device handed operations on either key (tests::test_g_counter  *)
(* counts "visitors" and "downloads" in one GCounter).                     *)
(***************************************************************************)
NextKeys ==
    \E op \in CrdtOperation :
        \/ ApplyToRegister("d1", op)
        \/ ApplyToCounter("d1", op)
        \/ ApplyToSet("d1", op)

SpecKeys == InitCounter /\ [][NextKeys]_vars

(***************************************************************************)
(* Claims about LWWRegister.                                               *)
(***************************************************************************)
OpsOn(S, k) == {o \in S : o.type = "LWWRegister" /\ o.key = k}
MaxTsOf(S) == CHOOSE t \in {o.timestamp : o \in S} : \A o \in S : o.timestamp <= t
LastIsRegisterSet == last.kind = "lww" /\ last.op.type = "LWWRegister"
Wins(before, op) ==
    op.key \notin DOMAIN before \/ op.timestamp > before[op.key].timestamp

\* C2: apply_operation on a RegisterSet returns Ok, and the stored pair of the
\* key becomes (value, timestamp) if the key was absent or the timestamp is
\* strictly greater than the stored one; otherwise the register is left as it was.
C2_ApplyReplacesIffNewer ==
    LastIsRegisterSet =>
        LET before == last.before
            after == registers[last.dev]
            op == last.op
        IN  /\ last.result = "Ok"
            /\ Wins(before, op) =>
                  /\ DOMAIN after = DOMAIN before \cup {op.key}
                  /\ after[op.key] = [value |-> op.value, timestamp |-> op.timestamp]
                  /\ \A k \in DOMAIN before \ {op.key} : after[k] = before[k]
            /\ ~Wins(before, op) => after = before

C2_Witness ==
    /\ LastIsRegisterSet
    /\ last.op.key \in DOMAIN last.before
    /\ last.op.timestamp > last.before[last.op.key].timestamp
    /\ registers[last.dev][last.op.key].value = last.op.value
    /\ last.before[last.op.key].value # last.op.value

\* C3: the timestamp stored for a key is the maximum timestamp of the
\* RegisterSet operations applied so far for that key (the key is absent when
\* there is none), and an apply never lowers a stored timestamp.
C3_StoredTimestampIsMax ==
    /\ \A d \in Replicas, k \in Keys :
          IF OpsOn(applied[d], k) = {}
          THEN k \notin DOMAIN registers[d]
          ELSE /\ k \in DOMAIN registers[d]
               /\ registers[d][k].timestamp = MaxTsOf(OpsOn(applied[d], k))
    /\ last.kind = "lww" =>
          \A k \in DOMAIN last.before :
              /\ k \in DOMAIN registers[last.dev]
              /\ registers[last.dev][k].timestamp >= last.before[k].timestamp

C3_Witness ==
    /\ LastIsRegisterSet
    /\ last.op.key \in DOMAIN last.before
    /\ last.op.timestamp < last.before[last.op.key].timestamp
    /\ Cardinality(OpsOn(applied[last.dev], last.op.key)) >= 2

\* C4: two fresh devices that have applied the same set of RegisterSet
\* operations, with pairwise distinct timestamps per key, read the same value
\* for every key: the value of the operation with the greatest timestamp.
DistinctTimestamps(S) ==
    \A o1, o2 \in S : (o1.key = o2.key /\ o1.timestamp = o2.timestamp) => o1 = o2
BothAppliedPool == \A d \in Replicas : applied[d] = pool
WinnerOf(S, k) == CHOOSE o \in OpsOn(S, k) : o.timestamp = MaxTsOf(OpsOn(S, k))

C4_LwwConvergence ==
    (BothAppliedPool /\ DistinctTimestamps(pool)) =>
        \A k \in Keys, d \in Replicas :
            LWWRegister_get_value(registers[d], k) =
                IF OpsOn(pool, k) = {} THEN None ELSE Some(WinnerOf(pool, k).value)

C4_Witness ==
    /\ BothAppliedPool
    /\ DistinctTimestamps(pool)
    /\ \E k \in Keys :
          /\ Cardinality(OpsOn(pool, k)) >= 2
          /\ first_applied["d1"][k] # first_applied["d2"][k]
          /\ \E o \in OpsOn(pool, k) : o.value # WinnerOf(pool, k).value

\* C5: of two RegisterSet operations on one key with equal timestamps and
\* different values, the one a device applies first keeps its value, so two
\* fresh devices that apply the two in opposite orders read different values.
TiePair(o1, o2) ==
    /\ o1.key = o2.key
    /\ o1.timestamp = o2.timestamp
    /\ o1.value # o2.value

C5_TieKeepsFirstApplied ==
    \A o1, o2 \in LwwOps :
        ( /\ TiePair(o1, o2)
          /\ pool = {o1, o2}
          /\ BothAppliedPool
          /\ first_applied["d1"][o1.key] = Some(o1)
          /\ first_applied["d2"][o1.key] = Some(o2) )
        => /\ LWWRegister_get_value(registers["d1"], o1.key) = Some(o1.value)
           /\ LWWRegister_get_value(registers["d2"], o1.key) = Some(o2.value)
           /\ LWWRegister_get_value(registers["d1"], o1.key) #
                  LWWRegister_get_value(registers["d2"], o1.key)

C5_Witness ==
    \E o1, o2 \in pool :
        /\ TiePair(o1, o2)
        /\ pool = {o1, o2}
        /\ BothAppliedPool
        /\ first_applied["d1"][o1.key] = Some(o1)
        /\ first_applied["d2"][o1.key] = Some(o2)
        /\ registers["d1"][o1.key].value # registers["d2"][o1.key].value

\* C6: applying again a RegisterSet operation that the register has already
\* applied, at any later point, leaves the whole register unchanged.
C6_LwwIdempotent ==
    (LastIsRegisterSet /\ last.op \in last.seen) => registers[last.dev] = last.before

C6_Witness ==
    /\ LastIsRegisterSet
    /\ last.op \in last.seen
    /\ registers[last.dev][last.op.key].value # last.op.value
    /\ registers[last.dev] = last.before

(***************************************************************************)
(* Claims about GCounter.                                                  *)
(***************************************************************************)
\* The sum of amounts as a number: one limb wider than u64, so that it
\* does not wrap within the bounds of the model.
Wide(a) == a \o <<0>>
WideAdd(a, b) == SubSeq(AddFrom(a, b, 1, 0), 1, Len(a))

RECURSIVE AddTimes(_, _, _)
AddTimes(acc, a, n) == IF n = 0 THEN acc ELSE AddTimes(WideAdd(acc, a), a, n - 1)

RECURSIVE SumOfIncrements(_, _)
SumOfIncrements(S, B) ==
    IF S = {} THEN Wide(U64(0))
    ELSE LET o == CHOOSE x \in S : TRUE
         IN  AddTimes(SumOfIncrements(S \ {o}, B), Wide(o.increment), B[o])

IncrementsOn(B, k) == {o \in BagToSet(B) : o.type = "GCounter" /\ o.key = k}
SumOn(B, k) == SumOfIncrements(IncrementsOn(B, k), B)
LastIsIncrement == last.kind = "gc" /\ last.op.type = "GCounter"

\* C7: apply_operation on a CounterIncrement returns Ok, and the read of a key
\* is the decimal rendering of the sum of the amounts of all increments applied
\* to it, each counted once per application.
C7_ReadIsDecimalSum ==
    LastIsIncrement =>
        /\ last.result = "Ok"
        /\ \A k \in Keys :
              GCounter_get_value(counters[last.dev], k) =
                  IF IncrementsOn(applied_count[last.dev], k) = {} THEN None
                  ELSE Some(u64_to_string(SumOn(applied_count[last.dev], k)))

\* C8: across any apply_operation call the total stored for a key does not
\* decrease.
C8_TotalNeverDecreases ==
    last.kind = "gc" =>
        \A k \in DOMAIN last.before :
            /\ k \in DOMAIN counters[last.dev]
            /\ U64Leq(last.before[k], counters[last.dev][k])

\* C9: two fresh devices that have applied the same multiset of
\* CounterIncrement operations, each in its own order, read the same value for
\* every key.
C9_CounterCommutes ==
    applied_count["d1"] = applied_count["d2"] =>
        \A k \in Keys :
            GCounter_get_value(counters["d1"], k) = GCounter_get_value(counters["d2"], k)

C9_Witness ==
    \E k \in Keys :
        /\ applied_count["d1"] = applied_count["d2"]
        /\ IncrementsOn(applied_count["d1"], k) =
              {[type |-> "GCounter", key |-> k, increment |-> U64(3)],
               [type |-> "GCounter", key |-> k, increment |-> U64(2)]}
        /\ BagCardinality(applied_count["d1"]) = 2
        /\ first_applied["d1"][k] # first_applied["d2"][k]
        /\ GCounter_get_value(counters["d1"], k) = Some("5")
        /\ GCounter_get_value(counters["d2"], k) = Some("5")

\* C10: an apply_operation call that returns Ok for a CounterIncrement with
\* amount > 0 identical to one applied before adds the amount again: the read
\* of the key after it differs from the read before it.
C10_CounterNotIdempotent ==
    ( /\ LastIsIncrement
      /\ last.result = "Ok"
      /\ BagIn(last.op, last.seen)
      /\ ~IsZero(last.op.increment) )
    => /\ GCounter_get_value(counters[last.dev], last.op.key) #
              GCounter_get_value(last.before, last.op.key)
       /\ counters[last.dev][last.op.key] =
              U64Add(last.before[last.op.key], last.op.increment).wrapped

C10_Witness ==
    /\ LastIsIncrement
    /\ last.result = "Ok"
    /\ last.op.increment = U64(1)
    /\ last.seen = SetToBag({last.op})
    /\ GCounter_get_value(last.before, last.op.key) = Some("1")
    /\ GCounter_get_value(counters[last.dev], last.op.key) = Some("2")

(***************************************************************************)
(* CrdtManager.  One mutation caller and one ingestion loop run on each    *)
(* device; a call is cut into steps at its suspension points (.await) and  *)
(* where it takes the Mutex of a replicated type, which it may wait for.   *)
(* The collaborators are modelled by their contracts: a NIP-04 ciphertext  *)
(* opens under the shared secret of the two identities it was made for;    *)
(* serde_json round-trips a CrdtOperation; a send attempt succeeds or      *)
(* fails; Timestamp::now() is the wall clock, any value of Timestamps.     *)
(***************************************************************************)
crdt_kind == "TextNote"
max_retries == 3
MarkerTag == <<"t", "nostr-crdt">>

ManagerKeys == {"k1"}
ManagerAmounts == {U64(1), U64Max}

\* serde_json::to_string(&op) and serde_json::from_str::<CrdtOperation>
op_to_json(op) == [fmt |-> "json", op |-> op]
op_from_json(text) ==
    IF text.fmt = "json" /\ text.op \in CrdtOperation
    THEN [ok |-> TRUE, op |-> text.op]
    ELSE [ok |-> FALSE, op |-> NoOp]

\* signer.nip04_encrypt(public_key, content): "<ciphertext>?iv=<iv>"
nip04_encrypt(who, public_key, content) ==
    [iv |-> TRUE, shared |-> {who, public_key}, plain |-> content]
\* signer.nip04_decrypt(public_key, content): Err when the signer fails
\* (signer_ok is its outcome for this request, as for public_key and
\* nip04_encrypt) or when the content is no ciphertext of the two keys.
nip04_decrypt(who, public_key, content, signer_ok) ==
    IF signer_ok /\ content.iv /\ content.shared = {who, public_key}
    THEN [ok |-> TRUE, text |-> content.plain]
    ELSE [ok |-> FALSE, text |-> [fmt |-> "none"]]
ContainsIv(content) == content.iv

TagsOf(op) ==
    IF op.type = "LWWRegister" THEN {<<"c", "crdt", "lww">>}
    ELSE IF op.type = "GCounter" THEN {<<"c", "crdt", "gcounter">>}
    ELSE {<<"c", "crdt", "gset">>}

\* The Mutex that guards the replicated type of an operation's variant.
LockOf(op) ==
    IF op.type = "LWWRegister" THEN "lww_registers"
    ELSE IF op.type = "GCounter" THEN "g_counters"
    ELSE "g_sets"

\* Only the counter's apply can panic, so only g_counters is ever poisoned.
IsPoisoned(d, op) == LockOf(op) = "g_counters" /\ d \in poisoned

CallFree(d) == calls[d].pc \in {"idle", "returned"} /\ ncalls < MaxCalls
StartCall(d, op) ==
    /\ CallFree(d)
    /\ calls' = [calls EXCEPT ![d] = [IdleCall EXCEPT !.pc = "apply", !.op = op]]
    /\ ncalls' = ncalls + 1
    /\ UNCHANGED <<typeVars, buildVars, ghostVars, keys_of, merged, paginator, poisoned, ingest, net,
                   delivered, next_id, locks>>

\* update_lww_register, up to the local apply: the clock is read, the
\* operation built.
UpdateLwwRegister(d, key, value, now) ==
    StartCall(d, [type |-> "LWWRegister", key |-> key, value |-> value, timestamp |-> now])

\* increment_counter, up to the local apply.
IncrementCounter(d, key, increment) ==
    StartCall(d, [type |-> "GCounter", key |-> key, increment |-> increment])

\* add_to_set, up to the local apply.
AddToSet(d, key, value) ==
    StartCall(d, [type |-> "GSet", key |-> key, value |-> value, action |-> "Add"])

Return(d, result) == [calls EXCEPT ![d].pc = "returned", ![d].result = result]

\* apply_operation of the replicated type of the operation's variant, called
\* through the MutexGuard.
ApplyLocked(d, op) ==
    IF op.type = "LWWRegister"
    THEN LET r == LWWRegister_apply_operation(registers[d], op)
         IN  [registers |-> r.state, counters |-> counters[d], sets |-> sets[d],
              poison |-> FALSE, result |-> r.result]
    ELSE IF op.type = "GCounter"
    THEN LET r == GCounter_apply_operation(counters[d], op)
         IN  [registers |-> registers[d], counters |-> r.state, sets |-> sets[d],
              poison |-> r.result = "panic", result |-> r.result]
    ELSE LET r == GSet_apply_operation(sets[d], op)
         IN  [registers |-> registers[d], counters |-> counters[d], sets |-> r.state,
              poison |-> FALSE, result |-> r.result]

\* The guard's writes reach the shared state; a panic under the guard poisons
\* the mutex.
Store(d, a) ==
    /\ registers' = [registers EXCEPT ![d] = a.registers]
    /\ counters' = [counters EXCEPT ![d] = a.counters]
    /\ sets' = [sets EXCEPT ![d] = a.sets]
    /\ poisoned' = IF a.poison THEN poisoned \cup {d} ELSE poisoned

\* The guard is a temporary of the statement: it is dropped, and the mutex
\* released, when apply_operation has returned or unwound.
Release(d, op) == locks' = [locks EXCEPT ![d][LockOf(op)] = "free"]

CallLock_TakesRegistersToo(d) ==
    /\ calls[d].pc = "apply"
    /\ locks[d][LockOf(calls[d].op)] = "free"
    /\ locks[d]["lww_registers"] = "free"
    /\ IF IsPoisoned(d, calls[d].op)
       THEN /\ calls' = [calls EXCEPT ![d].pc = "returned", ![d].result = "panic",
                                      ![d].local = "panic"]
            /\ UNCHANGED locks
       ELSE /\ calls' = [calls EXCEPT ![d].pc = "locked"]
            /\ locks' = [locks EXCEPT ![d][LockOf(calls[d].op)] = "call",
                                      ![d]["lww_registers"] = "call"]
    /\ UNCHANGED <<typeVars, buildVars, ghostVars, keys_of, merged, paginator, poisoned, ingest, net,
                   delivered, ncalls, next_id>>

\* "Apply operation locally first": lock().unwrap() of the mutation call.
\* lock() blocks while another task holds the mutex; on a poisoned mutex it
\* returns Err and unwrap() panics, which ends the call.
CallLock(d) ==
    /\ calls[d].pc = "apply"
    /\ locks[d][LockOf(calls[d].op)] = "free"
    /\ IF IsPoisoned(d, calls[d].op)
       THEN /\ calls' = [calls EXCEPT ![d].pc = "returned", ![d].result = "panic",
                                      ![d].local = "panic"]
            /\ UNCHANGED locks
       ELSE /\ calls' = [calls EXCEPT ![d].pc = "locked"]
            /\ locks' = [locks EXCEPT ![d][LockOf(calls[d].op)] = "call"]
    /\ UNCHANGED <<typeVars, buildVars, ghostVars, keys_of, merged, paginator, poisoned, ingest, net,
                   delivered, ncalls, next_id>>

LocalApply_KeepsLock(d) ==
    /\ calls[d].pc = "locked"
    /\ LET a == ApplyLocked(d, calls[d].op)
       IN  /\ Store(d, a)
           /\ calls' = IF a.result = "Ok"
                       THEN [calls EXCEPT ![d].pc = "pubkey", ![d].local = "Ok"]
                       ELSE [calls EXCEPT ![d].pc = "returned", ![d].result = a.result,
                                          ![d].local = a.result]
    /\ UNCHANGED <<buildVars, ghostVars, keys_of, merged, paginator, ingest, net, delivered, ncalls, next_id,
                   locks>>

LocalApply_IgnoresError(d) ==
    /\ calls[d].pc = "locked"
    /\ LET a == ApplyLocked(d, calls[d].op)
       IN  /\ Store(d, a)
           /\ calls' = [calls EXCEPT ![d].pc = "pubkey", ![d].local = a.result]
    /\ Release(d, calls[d].op)
    /\ UNCHANGED <<buildVars, ghostVars, keys_of, merged, paginator, ingest, net, delivered, ncalls, next_id>>

\* apply_operation(op.clone())? of the mutation call: an error or a panic ends
\* the call, Ok goes on to publish_encrypted_crdt_operation.
LocalApply(d) ==
    /\ calls[d].pc = "locked"
    /\ LET a == ApplyLocked(d, calls[d].op)
       IN  /\ Store(d, a)
           /\ calls' = IF a.result = "Ok"
                       THEN [calls EXCEPT ![d].pc = "pubkey", ![d].local = "Ok"]
                       ELSE [calls EXCEPT ![d].pc = "returned", ![d].result = a.result,
                                          ![d].local = a.result]
    /\ Release(d, calls[d].op)
    /\ UNCHANGED <<buildVars, ghostVars, keys_of, merged, paginator, ingest, net, delivered, ncalls, next_id>>

PublicKey_SleepsOnError(d, ok) ==
    /\ calls[d].pc = "pubkey"
    /\ calls' = IF ok THEN [calls EXCEPT ![d].pc = "encrypt"]
                ELSE IF calls[d].sleeps + 1 < max_retries
                     THEN [calls EXCEPT ![d].sleeps = @ + 1]
                     ELSE Return(d, "Signer")
    /\ UNCHANGED <<typeVars, buildVars, ghostVars, keys_of, merged, paginator, poisoned, ingest, net,
                   delivered, ncalls, next_id, locks>>

\* publish_encrypted_crdt_operation: self.signer.public_key().await?
PublicKey(d, ok) ==
    /\ calls[d].pc = "pubkey"
    /\ calls' = IF ok THEN [calls EXCEPT ![d].pc = "encrypt"] ELSE Return(d, "Signer")
    /\ UNCHANGED <<typeVars, buildVars, ghostVars, keys_of, merged, paginator, poisoned, ingest, net,
                   delivered, ncalls, next_id, locks>>

Encrypt_NoMarker(d, outcome) ==
    /\ calls[d].pc = "encrypt"
    /\ IF outcome = "ok"
       THEN /\ calls' = [calls EXCEPT
                   ![d].pc = "send",
                   ![d].event =
                       [id |-> next_id + 1, kind |-> crdt_kind, pubkey |-> keys_of[d],
                        content |-> nip04_encrypt(keys_of[d], keys_of[d],
                                                  op_to_json(calls[d].op)),
                        tags |-> TagsOf(calls[d].op)]]
            /\ next_id' = next_id + 1
       ELSE /\ calls' = Return(d, outcome)
            /\ UNCHANGED next_id
    /\ UNCHANGED <<typeVars, buildVars, ghostVars, keys_of, merged, paginator, poisoned, ingest, net,
                   delivered, ncalls, locks>>

\* nip04_encrypt(my_pubkey, &content).await?, then the event is built with the
\* marker tag and signed: EventBuilder::new(..).to_event(&self.keys)?
Encrypt(d, outcome) ==
    /\ calls[d].pc = "encrypt"
    /\ IF outcome = "ok"
       THEN /\ calls' = [calls EXCEPT
                   ![d].pc = "send",
                   ![d].event =
                       [id |-> next_id + 1, kind |-> crdt_kind, pubkey |-> keys_of[d],
                        content |-> nip04_encrypt(keys_of[d], keys_of[d],
                                                  op_to_json(calls[d].op)),
                        tags |-> TagsOf(calls[d].op) \cup {MarkerTag}]]
            /\ next_id' = next_id + 1
       ELSE /\ calls' = Return(d, outcome)
            /\ UNCHANGED next_id
    /\ UNCHANGED <<typeVars, buildVars, ghostVars, keys_of, merged, paginator, poisoned, ingest, net,
                   delivered, ncalls, locks>>

SendEvent_OneMoreAttempt(d, ok) ==
    /\ calls[d].pc = "send"
    /\ IF ok
       THEN /\ net' = net \cup {calls[d].event}
            /\ calls' = [calls EXCEPT ![d].pc = "returned", ![d].result = "Ok",
                                      ![d].attempts = @ + 1]
       ELSE /\ UNCHANGED net
            /\ calls' = IF calls[d].retry_count + 1 <= max_retries
                        THEN [calls EXCEPT ![d].pc = "sleep",
                                           ![d].retry_count = @ + 1,
                                           ![d].attempts = @ + 1]
                        ELSE [calls EXCEPT ![d].pc = "returned",
                                           ![d].retry_count = @ + 1,
                                           ![d].attempts = @ + 1,
                                           ![d].result = "Client"]
    /\ UNCHANGED <<typeVars, buildVars, ghostVars, keys_of, merged, paginator, poisoned, ingest,
                   delivered, ncalls, next_id, locks>>

\* One turn of the retry loop: self.client.send_event(event.clone()).await;
\* Ok returns the event id, Err counts the failure and either goes on to the
\* delay or leaves the loop with Err(Error::Client(..)).
SendEvent(d, ok) ==
    /\ calls[d].pc = "send"
    /\ IF ok
       THEN /\ net' = net \cup {calls[d].event}
            /\ calls' = [calls EXCEPT ![d].pc = "returned", ![d].result = "Ok",
                                      ![d].attempts = @ + 1]
       ELSE /\ UNCHANGED net
            /\ calls' = IF calls[d].retry_count + 1 < max_retries
                        THEN [calls EXCEPT ![d].pc = "sleep",
                                           ![d].retry_count = @ + 1,
                                           ![d].attempts = @ + 1]
                        ELSE [calls EXCEPT ![d].pc = "returned",
                                           ![d].retry_count = @ + 1,
                                           ![d].attempts = @ + 1,
                                           ![d].result = "Client"]
    /\ UNCHANGED <<typeVars, buildVars, ghostVars, keys_of, merged, paginator, poisoned, ingest,
                   delivered, ncalls, next_id, locks>>

Sleep_NewEvent(d) ==
    /\ calls[d].pc = "sleep"
    /\ calls' = [calls EXCEPT ![d].pc = "send", ![d].sleeps = @ + 1,
                              ![d].event.id = next_id + 1]
    /\ next_id' = next_id + 1
    /\ UNCHANGED <<typeVars, buildVars, ghostVars, keys_of, merged, paginator, poisoned, ingest, net,
                   delivered, ncalls, locks>>

\* tokio::time::sleep(1 s).await between two attempts
Sleep(d) ==
    /\ calls[d].pc = "sleep"
    /\ calls' = [calls EXCEPT ![d].pc = "send", ![d].sleeps = @ + 1]
    /\ UNCHANGED <<typeVars, buildVars, ghostVars, keys_of, merged, paginator, poisoned, ingest, net,
                   delivered, ncalls, next_id, locks>>

\* serde_json::from_str(&content).map_err(|_| SerializationError)?: the
\* ingestion either holds a decoded operation to dispatch or is done.
Decoded(e, text) ==
    LET parsed == op_from_json(text)
    IN  IF parsed.ok
        THEN [pc |-> "merge", event |-> e, op |-> parsed.op, result |-> "none"]
        ELSE [pc |-> "done", event |-> e, op |-> NoOp, result |-> "SerializationError"]

ProcessEvent_NoKindCheck(d, e) ==
    /\ e \in net
    /\ ingest[d].pc \in {"idle", "done"}
    /\ CopiesIn(e.id, delivered[d]) < MaxDeliver
    /\ delivered' = [delivered EXCEPT ![d] = @ (+) SetToBag({e.id})]
    /\ ingest' = [ingest EXCEPT ![d] =
                     IF ContainsIv(e.content)
                     THEN [pc |-> "decrypt", event |-> e, op |-> NoOp, result |-> "none"]
                     ELSE Decoded(e, e.content.plain)]
    /\ UNCHANGED <<typeVars, buildVars, ghostVars, keys_of, merged, paginator, poisoned, calls, net, ncalls,
                   next_id, locks>>

\* process_event up to its first suspension point or to the dispatch: an event
\* of another kind is dropped with Ok; encrypted content waits for the signer;
\* other content is decoded as it is.
ProcessEvent(d, e) ==
    /\ e \in net
    /\ ingest[d].pc \in {"idle", "done"}
    /\ CopiesIn(e.id, delivered[d]) < MaxDeliver
    /\ delivered' = [delivered EXCEPT ![d] = @ (+) SetToBag({e.id})]
    /\ ingest' = [ingest EXCEPT ![d] =
                     IF e.kind # crdt_kind
                     THEN [pc |-> "done", event |-> e, op |-> NoOp, result |-> "Ok"]
                     ELSE IF ContainsIv(e.content)
                     THEN [pc |-> "decrypt", event |-> e, op |-> NoOp, result |-> "none"]
                     ELSE Decoded(e, e.content.plain)]
    /\ UNCHANGED <<typeVars, buildVars, ghostVars, keys_of, merged, paginator, poisoned, calls, net, ncalls,
                   next_id, locks>>

ProcessDecrypted_PropagatesSigner(d, signer_ok) ==
    /\ ingest[d].pc = "decrypt"
    /\ LET e == ingest[d].event
           plain == nip04_decrypt(keys_of[d], e.pubkey, e.content, signer_ok)
       IN  ingest' = [ingest EXCEPT ![d] =
                         IF plain.ok THEN Decoded(e, plain.text)
                         ELSE [pc |-> "done", event |-> e, op |-> NoOp,
                               result |-> "Signer"]]
    /\ UNCHANGED <<typeVars, buildVars, ghostVars, keys_of, merged, paginator, poisoned, calls, net, delivered,
                   ncalls, next_id, locks>>

\* process_event after nip04_decrypt(event.pubkey, &event.content).await:
\* Ok(decrypted) goes on to the decoding, every Err(_) of the signer returns
\* SerializationError.
ProcessDecrypted(d, signer_ok) ==
    /\ ingest[d].pc = "decrypt"
    /\ LET e == ingest[d].event
           plain == nip04_decrypt(keys_of[d], e.pubkey, e.content, signer_ok)
       IN  ingest' = [ingest EXCEPT ![d] =
                         IF plain.ok THEN Decoded(e, plain.text)
                         ELSE [pc |-> "done", event |-> e, op |-> NoOp,
                               result |-> "SerializationError"]]
    /\ UNCHANGED <<typeVars, buildVars, ghostVars, keys_of, merged, paginator, poisoned, calls, net, delivered,
                   ncalls, next_id, locks>>

\* process_event, the dispatch on the variant: lock().unwrap() of the matching
\* type.
IngestLock(d) ==
    /\ ingest[d].pc = "merge"
    /\ locks[d][LockOf(ingest[d].op)] = "free"
    /\ IF IsPoisoned(d, ingest[d].op)
       THEN /\ ingest' = [ingest EXCEPT ![d].pc = "done", ![d].result = "panic"]
            /\ UNCHANGED locks
       ELSE /\ ingest' = [ingest EXCEPT ![d].pc = "locked"]
            /\ locks' = [locks EXCEPT ![d][LockOf(ingest[d].op)] = "ingest"]
    /\ UNCHANGED <<typeVars, buildVars, ghostVars, keys_of, merged, paginator, poisoned, calls, net, delivered,
                   ncalls, next_id>>

\* The record of the events whose operation process_event on d has applied
\* with Ok, after the apply that returned result.
Merged(d, result) ==
    IF result = "Ok"
    THEN [merged EXCEPT ![d] = @ (+) SetToBag({ingest[d].event.id})]
    ELSE merged

IngestApply_AlwaysRegister(d) ==
    /\ ingest[d].pc = "locked"
    /\ LET r == LWWRegister_apply_operation(registers[d], ingest[d].op)
       IN  /\ registers' = [registers EXCEPT ![d] = r.state]
           /\ ingest' = [ingest EXCEPT ![d].pc = "done", ![d].result = r.result]
           /\ merged' = Merged(d, r.result)
    /\ Release(d, ingest[d].op)
    /\ UNCHANGED <<counters, sets, poisoned, buildVars, ghostVars, keys_of, paginator, calls, net,
                   delivered, ncalls, next_id>>

\* process_event, apply_operation(op) through the guard; its result is the
\* result of process_event.
IngestApply(d) ==
    /\ ingest[d].pc = "locked"
    /\ LET a == ApplyLocked(d, ingest[d].op)
       IN  /\ Store(d, a)
           /\ ingest' = [ingest EXCEPT ![d].pc = "done", ![d].result = a.result]
           /\ merged' = Merged(d, a.result)
    /\ Release(d, ingest[d].op)
    /\ UNCHANGED <<buildVars, ghostVars, keys_of, paginator, calls, net, delivered, ncalls, next_id>>

\* Reads of the manager: lock().unwrap().get_value(key)
get_register_value(d, key) == LWWRegister_get_value(registers[d], key)
get_counter_value(d, key) ==
    IF d \in poisoned THEN "panic" ELSE GCounter_get_value(counters[d], key)
get_set_value(d, key) == GSet_get_value(sets[d], key)

\* get_filter: Filter::new().kind(self.crdt_kind).hashtag("nostr-crdt"), and
\* the relay's matching of an event against it (kind listed, and a "t" tag
\* with one of the listed values).
get_filter == [kinds |-> {crdt_kind}, hashtags |-> {"nostr-crdt"}]
MatchEvent(filter, e) ==
    /\ e.kind \in filter.kinds
    /\ \E tag \in e.tags : Len(tag) = 2 /\ tag[1] = "t" /\ tag[2] \in filter.hashtags

Init ==
    /\ InitTypes
    /\ InitGhost
    /\ overflow_checks \in BOOLEAN
    /\ panicked = {}
    /\ keys_of \in {k \in [Replicas -> Identities] : k["d1"] = "alice"}
    /\ merged = [d \in Replicas |-> EmptyBag]
    /\ paginator = NoPaginator
    /\ poisoned = {}
    /\ calls = [d \in Replicas |-> IdleCall]
    /\ ingest = [d \in Replicas |-> IdleIngest]
    /\ net = {}
    /\ delivered = [d \in Replicas |-> EmptyBag]
    /\ ncalls = 0
    /\ next_id = 0
    /\ locks = [d \in Replicas |-> FreeLocks]

Next ==
    \E d \in Replicas :
        \/ \E k \in ManagerKeys, v \in Values, now \in Timestamps :
               UpdateLwwRegister(d, k, v, now)
        \/ \E k \in ManagerKeys, n \in ManagerAmounts : IncrementCounter(d, k, n)
        \/ \E k \in ManagerKeys, v \in Values : AddToSet(d, k, v)
        \/ CallLock(d)
        \/ LocalApply(d)
        \/ \E ok \in BOOLEAN : PublicKey(d, ok)
        \/ \E outcome \in {"ok", "Signer", "EventBuilder"} : Encrypt(d, outcome)
        \/ \E ok \in BOOLEAN : SendEvent(d, ok)
        \/ Sleep(d)
        \/ \E e \in net : ProcessEvent(d, e)
        \/ \E signer_ok \in BOOLEAN : ProcessDecrypted(d, signer_ok)
        \/ IngestLock(d)
        \/ IngestApply(d)

Spec == Init /\ [][Next]_vars

(***************************************************************************)
(* One manager and the events a relay may hand it.  Beside its own         *)
(* published events the manager is given events it did not publish: of     *)
(* another kind, with plain or encrypted content, with or without the      *)
(* marker tag, well-formed or not.                                         *)
(***************************************************************************)
OtherKind == "Metadata"
ForeignOp == [type |-> "GCounter", key |-> "k1", increment |-> U64(1)]
ForeignWrite == [type |-> "LWWRegister", key |-> "k1", value |-> "b", timestamp |-> 1]
\* event.content.contains("?iv="): of the strings of the model only IvMarker
\* holds the four characters; serde_json writes them into the text unescaped.
IvMarker == "?iv="
StringHasIv(str) == str = IvMarker
JsonHasIv(text) ==
    /\ text.fmt = "json"
    /\ \/ StringHasIv(text.op.key)
       \/ text.op.type \in {"LWWRegister", "GSet"} /\ StringHasIv(text.op.value)
PlainContent(text) == [iv |-> JsonHasIv(text), shared |-> {}, plain |-> text]
ForeignEvent(id, kind, content, tags) ==
    [id |-> id, kind |-> kind, pubkey |-> "bob", content |-> content, tags |-> tags]

ForeignEvents ==
    { ForeignEvent(101, OtherKind, PlainContent(op_to_json(ForeignOp)),
                   TagsOf(ForeignOp) \cup {MarkerTag}),
      ForeignEvent(102, OtherKind, nip04_encrypt("bob", "alice", op_to_json(ForeignOp)),
                   TagsOf(ForeignOp) \cup {MarkerTag}),
      ForeignEvent(103, crdt_kind, PlainContent(op_to_json(ForeignOp)), {}),
      ForeignEvent(104, crdt_kind, PlainContent([fmt |-> "text"]), {MarkerTag}),
      ForeignEvent(105, crdt_kind, nip04_encrypt("bob", "bob", op_to_json(ForeignOp)),
                   TagsOf(ForeignOp) \cup {MarkerTag}),
      ForeignEvent(106, crdt_kind, nip04_encrypt("bob", "alice", op_to_json(ForeignWrite)),
                   TagsOf(ForeignWrite) \cup {MarkerTag}),
      ForeignEvent(107, crdt_kind, nip04_encrypt("bob", "alice", [fmt |-> "text"]),
                   {MarkerTag}) }

InitManager ==
    /\ InitTypes
    /\ InitGhost
    /\ overflow_checks \in BOOLEAN
    /\ panicked = {}
    /\ keys_of = [d \in Replicas |-> "alice"]
    /\ merged = [d \in Replicas |-> EmptyBag]
    /\ paginator = NoPaginator
    /\ poisoned = {}
    /\ calls = [d \in Replicas |-> IdleCall]
    /\ ingest = [d \in Replicas |-> IdleIngest]
    /\ net \in {{}} \cup {{e} : e \in ForeignEvents}
    /\ delivered = [d \in Replicas |-> EmptyBag]
    /\ ncalls = 0
    /\ next_id = 0
    /\ locks = [d \in Replicas |-> FreeLocks]

\* The steps of the mutation call of the manager, from lock() to the return.
CallStep(d) ==
    \/ CallLock(d)
    \/ LocalApply(d)
    \/ \E ok \in BOOLEAN : PublicKey(d, ok)
    \/ \E outcome \in {"ok", "Signer", "EventBuilder"} : Encrypt(d, outcome)
    \/ \E ok \in BOOLEAN : SendEvent(d, ok)
    \/ Sleep(d)

\* The steps of process_event after its event has been taken.
IngestStep(d) ==
    \/ \E signer_ok \in BOOLEAN : ProcessDecrypted(d, signer_ok)
    \/ IngestLock(d)
    \/ IngestApply(d)

\* The ingestion loop hands the manager a bounded number of events.
IngestRoom(d) == BagCardinality(delivered[d]) < MaxIngest

NextManager ==
    \/ \E k \in ManagerKeys, v \in Values, now \in Timestamps :
           UpdateLwwRegister("d1", k, v, now)
    \/ \E k \in ManagerKeys, n \in ManagerAmounts : IncrementCounter("d1", k, n)
    \/ \E k \in ManagerKeys, v \in Values : AddToSet("d1", k, v)
    \/ CallStep("d1")
    \/ \E e \in net : IngestRoom("d1") /\ ProcessEvent("d1", e)
    \/ IngestStep("d1")

SpecManager == InitManager /\ [][NextManager]_vars

\* Here the relays hold nothing but what the manager itself publishes.
InitPublish == InitManager /\ net = {}

\* The runtime polls a task that can go on, every future of a collaborator
\* completes (with Ok or Err), and a mutex is released by its holder.
FairManager ==
    /\ InitPublish
    /\ [][NextManager]_vars
    /\ WF_vars(CallStep("d1"))
    /\ WF_vars(IngestStep("d1"))

(***************************************************************************)
(* The manager with a reader.  Beside the mutation caller and the          *)
(* ingestion a third task reads: get_register_value, get_counter_value and *)
(* get_set_value are lock().unwrap().get_value(key), one statement each.   *)
(* The reader holds the mutex as "read" from lock() to the end of the      *)
(* statement.  unwrap() on the poisoned g_counters panics with no lock     *)
(* held.                                                                   *)
(***************************************************************************)
HeldBy(d, task) == {l \in LockNames : locks[d][l] = task}

\* lock() of a getter: the reader waits while another task holds the mutex.
GetValueLock(d, l) ==
    /\ HeldBy(d, "read") = {}
    /\ locks[d][l] = "free"
    /\ ~(l = "g_counters" /\ d \in poisoned)
    /\ locks' = [locks EXCEPT ![d][l] = "read"]
    /\ UNCHANGED <<typeVars, buildVars, ghostVars, keys_of, merged, paginator, poisoned, calls, ingest, net,
                   delivered, ncalls, next_id>>

\* get_value(key) through the guard; the guard is dropped with the statement.
GetValue(d) ==
    /\ \E l \in LockNames :
          /\ locks[d][l] = "read"
          /\ locks' = [locks EXCEPT ![d][l] = "free"]
    /\ UNCHANGED <<typeVars, buildVars, ghostVars, keys_of, merged, paginator, poisoned, calls, ingest, net,
                   delivered, ncalls, next_id>>

ReadStep(d) ==
    \/ \E l \in LockNames : GetValueLock(d, l)
    \/ GetValue(d)

\* The relays hold one operation event with plain content, as the benchmark
\* builds them, so that the ingestion can meet the caller at a mutex.
InitLocks == InitManager /\ net = {e \in ForeignEvents : e.kind = crdt_kind /\ e.tags = {}}

NextLocks ==
    \/ NextManager
    \/ ReadStep("d1")

SpecLocks == InitLocks /\ [][NextLocks]_vars

(***************************************************************************)
(* The manager that receives one operation of a peer on the key its own    *)
(* mutation call works on: a RegisterSet, a CounterIncrement or a SetAdd,  *)
(* encrypted for the manager's identity.  The ingestion may take any of    *)
(* its steps between any two steps of the call.                            *)
(***************************************************************************)
ForeignAdd == [type |-> "GSet", key |-> "k1", value |-> "b", action |-> "Add"]
InboundMerges ==
    { ForeignEvent(111, crdt_kind, nip04_encrypt("bob", "alice", op_to_json(ForeignWrite)),
                   TagsOf(ForeignWrite) \cup {MarkerTag}),
      ForeignEvent(112, crdt_kind, nip04_encrypt("bob", "alice", op_to_json(ForeignOp)),
                   TagsOf(ForeignOp) \cup {MarkerTag}),
      ForeignEvent(113, crdt_kind, nip04_encrypt("bob", "alice", op_to_json(ForeignAdd)),
                   TagsOf(ForeignAdd) \cup {MarkerTag}) }

InitInterleave ==
    /\ InitTypes
    /\ InitGhost
    /\ overflow_checks \in BOOLEAN
    /\ panicked = {}
    /\ keys_of = [d \in Replicas |-> "alice"]
    /\ merged = [d \in Replicas |-> EmptyBag]
    /\ paginator = NoPaginator
    /\ poisoned = {}
    /\ calls = [d \in Replicas |-> IdleCall]
    /\ ingest = [d \in Replicas |-> IdleIngest]
    /\ net \in {{e} : e \in InboundMerges}
    /\ delivered = [d \in Replicas |-> EmptyBag]
    /\ ncalls = 0
    /\ next_id = 0
    /\ locks = [d \in Replicas |-> FreeLocks]

SpecInterleave == InitInterleave /\ [][NextManager]_vars

(***************************************************************************)
(* The manager that is handed one event of its kind whose content is the   *)
(* serialization of an operation, not encrypted (the benchmark's           *)
(* process_lww_event builds such an event): a write, an increment, an      *)
(* addition, or a write of a value that holds the characters "?iv=".       *)
(***************************************************************************)
ForeignIvWrite == [type |-> "LWWRegister", key |-> "k1", value |-> IvMarker, timestamp |-> 1]
PlainOps == {ForeignWrite, ForeignOp, ForeignAdd, ForeignIvWrite}
PlainEventOf(op) ==
    ForeignEvent(120, crdt_kind, PlainContent(op_to_json(op)), TagsOf(op) \cup {MarkerTag})
PlainEvents == {PlainEventOf(op) : op \in PlainOps}

InitPlain ==
    /\ InitTypes
    /\ InitGhost
    /\ overflow_checks \in BOOLEAN
    /\ panicked = {}
    /\ keys_of = [d \in Replicas |-> "alice"]
    /\ merged = [d \in Replicas |-> EmptyBag]
    /\ paginator = NoPaginator
    /\ poisoned = {}
    /\ calls = [d \in Replicas |-> IdleCall]
    /\ ingest = [d \in Replicas |-> IdleIngest]
    /\ net \in {{e} : e \in PlainEvents}
    /\ delivered = [d \in Replicas |-> EmptyBag]
    /\ ncalls = 0
    /\ next_id = 0
    /\ locks = [d \in Replicas |-> FreeLocks]

SpecPlain == InitPlain /\ [][NextManager]_vars

(***************************************************************************)
(* EventPaginator (fetch.rs).  A call of next_page runs to the .await of   *)
(* its query (the database's or the relays', by from_db) and goes on when  *)
(* the answer is there; the future may be dropped in between, and          *)
(* Stream::poll_next does so on every poll that finds the query pending:   *)
(* it makes a new next_page future, polls it once and lets it go.  A       *)
(* dropped future leaves the fields as they were, its query issued.        *)
(* next_page does not test the answer against the filters, so an answer    *)
(* is any set of at most page_size stored events, or an error.  The        *)
(* fields pc and pending are the suspended call and its updated_filters;   *)
(* calls, queries, dropped and result record the calls that returned, the  *)
(* queries issued, the futures dropped and what the last call returned.    *)
(* Events are created at second 1 or later, so `timestamp - 1` stays in    *)
(* range.                                                                  *)
(***************************************************************************)
PageSize == 2
MaxPages == 4
StoredEvents ==
    { [id |-> 1, created_at |-> 3], [id |-> 2, created_at |-> 2],
      [id |-> 3, created_at |-> 2], [id |-> 4, created_at |-> 1] }
QueryError == [ok |-> FALSE]
QueryOk(events) == [ok |-> TRUE, events |-> events]
Answers ==
    {QueryError} \cup {QueryOk(S) : S \in {T \in SUBSET StoredEvents : Cardinality(T) <= PageSize}}

\* What the last call of next_page returned: Option<Vec<Event>>.
NotCalled == [returned |-> "nothing"]
ReturnedNone == [returned |-> "None"]
ReturnedSome(events) == [returned |-> "Some", page |-> events]

\* The until and the limit of the filters: those given to new carry neither.
NoFilters == [until |-> None, limit |-> None]

\* EventPaginator::new
EventPaginator_new(from_db) ==
    [done |-> FALSE, oldest_timestamp |-> None, filters |-> NoFilters,
     page_size |-> PageSize, last_event_ids |-> {}, from_db |-> from_db,
     pc |-> "idle", pending |-> NoFilters,
     calls |-> 0, queries |-> 0, dropped |-> 0, result |-> NotCalled]

are_all_event_ids_present(self, events) == \A e \in events : e.id \in self.last_event_ids

\* utils::get_oldest_event: the event with the least created_at, if any
get_oldest_event(events) ==
    IF events = {} THEN None
    ELSE Some(CHOOSE e \in events : \A o \in events : e.created_at <= o.created_at)

next_page_query_NoDoneTest(self) ==
    IF FALSE
    THEN [self EXCEPT !.calls = @ + 1, !.result = ReturnedNone]
    ELSE [self EXCEPT !.pc = "querying",
                      !.pending = [until |-> IF self.oldest_timestamp = None
                                             THEN self.filters.until
                                             ELSE Some(self.oldest_timestamp[1] - 1),
                                   limit |-> Some(self.page_size)],
                      !.queries = @ + 1]

\* next_page up to the .await of its query: done returns None at once;
\* otherwise the filters get until and limit and the query is issued.
next_page_query(self) ==
    IF self.done
    THEN [self EXCEPT !.calls = @ + 1, !.result = ReturnedNone]
    ELSE [self EXCEPT !.pc = "querying",
                      !.pending = [until |-> IF self.oldest_timestamp = None
                                             THEN self.filters.until
                                             ELSE Some(self.oldest_timestamp[1] - 1),
                                   limit |-> Some(self.page_size)],
                      !.queries = @ + 1]

next_page_answer_AcceptsSamePage(self, resp) ==
    LET failed == [self EXCEPT !.pc = "idle", !.pending = NoFilters, !.done = TRUE,
                               !.calls = @ + 1, !.result = ReturnedNone]
    IN  IF ~resp.ok THEN failed
        ELSE IF resp.events = {} THEN failed
        ELSE LET oldest_event == get_oldest_event(resp.events)
             IN  IF oldest_event = None THEN failed
                 ELSE [self EXCEPT !.pc = "idle", !.pending = NoFilters,
                                   !.oldest_timestamp = Some(oldest_event[1].created_at),
                                   !.filters = self.pending,
                                   !.last_event_ids = {e.id : e \in resp.events},
                                   !.calls = @ + 1,
                                   !.result = ReturnedSome(resp.events)]

\* next_page from the answer resp of its query to its return
next_page_answer(self, resp) ==
    LET failed == [self EXCEPT !.pc = "idle", !.pending = NoFilters, !.done = TRUE,
                               !.calls = @ + 1, !.result = ReturnedNone]
    IN  IF ~resp.ok THEN failed
        ELSE IF resp.events = {} \/ are_all_event_ids_present(self, resp.events) THEN failed
        ELSE LET oldest_event == get_oldest_event(resp.events)
             IN  IF oldest_event = None THEN failed
                 ELSE [self EXCEPT !.pc = "idle", !.pending = NoFilters,
                                   !.oldest_timestamp = Some(oldest_event[1].created_at),
                                   !.filters = self.pending,
                                   !.last_event_ids = {e.id : e \in resp.events},
                                   !.calls = @ + 1,
                                   !.result = ReturnedSome(resp.events)]

PaginatorFrame ==
    UNCHANGED <<typeVars, buildVars, ghostVars, keys_of, merged, poisoned, calls, ingest, net,
                delivered, ncalls, next_id, locks>>

\* next_page().await or Stream::poll_next: the call starts.
NextPageQuery ==
    /\ paginator.pc = "idle"
    /\ paginator.calls + paginator.dropped < MaxPages
    /\ paginator' = next_page_query(paginator)
    /\ PaginatorFrame

\* The query is answered and the call returns.
NextPageAnswer(resp) ==
    /\ paginator.pc = "querying"
    /\ paginator' = next_page_answer(paginator, resp)
    /\ PaginatorFrame

\* The future is dropped at the .await: poll_next found it Pending, or the
\* caller gave the call up.
NextPageDropped ==
    /\ paginator.pc = "querying"
    /\ paginator' = [paginator EXCEPT !.pc = "idle", !.pending = NoFilters,
                                      !.dropped = @ + 1]
    /\ PaginatorFrame

InitPaginator ==
    /\ InitTypes
    /\ InitGhost
    /\ overflow_checks = FALSE
    /\ panicked = {}
    /\ keys_of = [d \in Replicas |-> "alice"]
    /\ merged = [d \in Replicas |-> EmptyBag]
    /\ poisoned = {}
    /\ calls = [d \in Replicas |-> IdleCall]
    /\ ingest = [d \in Replicas |-> IdleIngest]
    /\ net = {}
    /\ delivered = [d \in Replicas |-> EmptyBag]
    /\ ncalls = 0
    /\ next_id = 0
    /\ locks = [d \in Replicas |-> FreeLocks]
    /\ paginator \in {EventPaginator_new(from_db) : from_db \in BOOLEAN}

NextPaginator ==
    \/ NextPageQuery
    \/ \E resp \in Answers : NextPageAnswer(resp)
    \/ NextPageDropped

SpecPaginator == InitPaginator /\ [][NextPaginator]_vars

(***************************************************************************)
(* The manager whose mutation call may be cancelled.  The caller drops the *)
(* future of the call while it is suspended at one of its .await points:   *)
(* public_key, nip04_encrypt, send_event or sleep.  Up to the first of     *)
(* them the call runs without suspending.  A send that is dropped in       *)
(* flight may or may not have reached the relays.                          *)
(***************************************************************************)
Suspended(d) == calls[d].pc \in {"pubkey", "encrypt", "send", "sleep"}

Cancel_Anywhere(d, sent) ==
    /\ calls[d].pc \in {"apply", "pubkey", "encrypt", "send", "sleep"}
    /\ calls' = [calls EXCEPT ![d].pc = "returned", ![d].result = "cancelled"]
    /\ net' = IF sent /\ calls[d].pc = "send" THEN net \cup {calls[d].event} ELSE net
    /\ UNCHANGED <<typeVars, buildVars, ghostVars, keys_of, merged, paginator, poisoned, ingest, delivered,
                   ncalls, next_id, locks>>

Cancel(d, sent) ==
    /\ Suspended(d)
    /\ calls' = [calls EXCEPT ![d].pc = "returned", ![d].result = "cancelled"]
    /\ net' = IF sent /\ calls[d].pc = "send" THEN net \cup {calls[d].event} ELSE net
    /\ UNCHANGED <<typeVars, buildVars, ghostVars, keys_of, merged, paginator, poisoned, ingest, delivered,
                   ncalls, next_id, locks>>

NextCancel ==
    \/ NextManager
    \/ \E sent \in BOOLEAN : Cancel("d1", sent)

SpecCancel == InitLocks /\ [][NextCancel]_vars

(***************************************************************************)
(* Claims about the system of managers.                                    *)
(***************************************************************************)
Quiescent ==
    /\ \A d \in Replicas : calls[d].pc \in {"idle", "returned"}
    /\ \A d \in Replicas : ingest[d].pc \in {"idle", "done"}
EveryEventDeliveredEverywhere ==
    \A e \in net, d \in Replicas : CopiesIn(e.id, delivered[d]) >= 1
\* No device has dropped an event: process_event has decrypted, decoded and
\* applied every published operation on every device, returning Ok.
EveryEventMergedEverywhere ==
    \A e \in net, d \in Replicas : CopiesIn(e.id, merged[d]) >= 1
EveryCallPublished == Cardinality(net) = ncalls
OneIdentity == \A d1, d2 \in Replicas : keys_of[d1] = keys_of[d2]
Members(d, key) ==
    IF key \in DOMAIN sets[d] THEN Some({sets[d][key][i] : i \in 1..Len(sets[d][key])})
    ELSE None

\* C1: once every published operation has been delivered through process_event
\* to every device at least once, every device returns the same read for every
\* key of the register, counter and set types.  Stated for the case most
\* favourable to the claim: the devices share one identity, every mutation call
\* has returned and was published, no device's signer failed on an inbound
\* event (each event was applied where it was delivered), no addition
\* overflowed, and set reads are compared by membership.
C1_SystemConvergence ==
    ( /\ Quiescent
      /\ EveryEventDeliveredEverywhere
      /\ EveryEventMergedEverywhere
      /\ EveryCallPublished
      /\ OneIdentity
      /\ overflow_checks
      /\ poisoned = {} )
    => \A d1, d2 \in Replicas, k \in Keys :
           /\ get_register_value(d1, k) = get_register_value(d2, k)
           /\ get_counter_value(d1, k) = get_counter_value(d2, k)
           /\ Members(d1, k) = Members(d2, k)

(***************************************************************************)
(* Claims about GSet.                                                      *)
(***************************************************************************)
Elements(seq) == {seq[i] : i \in 1..Len(seq)}
MembersOf(self, k) == IF k \in DOMAIN self THEN Elements(self[k]) ELSE {}
ListingOf(self, k) == IF k \in DOMAIN self THEN self[k] ELSE <<>>
LastIsSetAdd == last.kind = "gs" /\ last.op.type = "GSet"

\* C11: apply_operation on a SetAdd returns Ok and appends the element to the
\* key's members if and only if it is not already among them; across every
\* apply the membership of every key only grows.
C11_SetGrowOnly ==
    /\ LastIsSetAdd =>
          LET before == last.before
              after == sets[last.dev]
              op == last.op
          IN  /\ last.result = "Ok"
              /\ op.key \in DOMAIN after
              /\ after[op.key] =
                    IF op.value \in MembersOf(before, op.key)
                    THEN ListingOf(before, op.key)
                    ELSE Append(ListingOf(before, op.key), op.value)
              /\ \A k \in Keys \ {op.key} : ListingOf(after, k) = ListingOf(before, k)
    /\ last.kind = "gs" =>
          \A k \in Keys : MembersOf(last.before, k) \subseteq MembersOf(sets[last.dev], k)

C11_Witness ==
    /\ LastIsSetAdd
    /\ last.op.key \in DOMAIN last.before
    /\ last.op.value \notin MembersOf(last.before, last.op.key)
    /\ Len(sets[last.dev][last.op.key]) = 2

\* C12: applying again a SetAdd that the set has already applied, at any later
\* point, leaves the whole set state (membership and listing) unchanged.
C12_SetIdempotent ==
    (LastIsSetAdd /\ last.op \in last.seen) => sets[last.dev] = last.before

C12_Witness ==
    /\ LastIsSetAdd
    /\ last.op \in last.seen
    /\ Len(sets[last.dev][last.op.key]) = 2
    /\ sets[last.dev][last.op.key][1] = last.op.value
    /\ sets[last.dev] = last.before

\* C13: two fresh devices that have applied the same set of SetAdd operations,
\* in any two orders and with any repeats, hold the same member set for every
\* key: the elements the operations add to it.
C13_SetConvergence ==
    BothAppliedPool =>
        \A k \in Keys, d \in Replicas :
            MembersOf(sets[d], k) = {o.value : o \in {x \in pool : x.key = k}}

C13_Witness ==
    /\ BothAppliedPool
    /\ \E k \in Keys :
          /\ k \in DOMAIN sets["d1"] /\ k \in DOMAIN sets["d2"]
          /\ sets["d1"][k] # sets["d2"][k]
          /\ Elements(sets["d1"][k]) = Elements(sets["d2"][k])

(***************************************************************************)
(* Claims about the three apply_operation implementations together.        *)
(***************************************************************************)
VariantOf(kind) ==
    IF kind = "lww" THEN "LWWRegister" ELSE IF kind = "gc" THEN "GCounter" ELSE "GSet"

StateOf(kind, d) ==
    IF kind = "lww" THEN registers[d] ELSE IF kind = "gc" THEN counters[d] ELSE sets[d]

\* C14: each of the three apply_operation implementations, handed an operation
\* of another variant, returns InvalidOperation and leaves its state as it
\* was; and every apply that does not return Ok (a rejection or an overflow
\* panic) leaves the state exactly as it was before the call.
C14_RejectionWithoutMutation ==
    last.kind \in {"lww", "gc", "gs"} =>
        /\ last.op.type # VariantOf(last.kind) =>
              /\ last.result = "InvalidOperation"
              /\ StateOf(last.kind, last.dev) = last.before
        /\ last.op.type = VariantOf(last.kind) => last.result # "InvalidOperation"
        /\ last.result # "Ok" => StateOf(last.kind, last.dev) = last.before

C14_Witness ==
    /\ last.kind = "gc"
    /\ last.op.type = "LWWRegister"
    /\ last.result = "InvalidOperation"
    /\ DOMAIN registers[last.dev] # {}
    /\ DOMAIN counters[last.dev] = {}
    /\ counters[last.dev] = last.before

(***************************************************************************)
(* Claims about the mutation calls of the manager.                         *)
(***************************************************************************)
Publishing(d) == calls[d].pc \in {"pubkey", "encrypt", "send", "sleep"}
CallRunning(d) == calls[d].pc \in {"apply", "locked"} \/ Publishing(d)
CallReturned(d) == calls[d].pc = "returned"
CountOf(self, k) == IF k \in DOMAIN self THEN self[k] ELSE U64(0)

\* The local-apply step of the call on d has just run and returned Ok.
LocalApplyRan(d) == calls[d].pc = "locked" /\ calls'[d].pc = "pubkey"

\* The read that matches the call's operation, taken right after the step.
ReadReflectsWrite(d) ==
    LET op == calls[d].op
    IN  IF op.type = "LWWRegister"
        THEN LWWRegister_get_value(registers'[d], op.key) = Some(op.value)
        ELSE IF op.type = "GCounter"
        THEN /\ op.key \in DOMAIN counters'[d]
             /\ Wide(counters'[d][op.key]) =
                    WideAdd(Wide(CountOf(counters[d], op.key)), Wide(op.increment))
        ELSE op.value \in MembersOf(sets'[d], op.key)

\* C15: whatever the state of the local replica before the call, right after
\* the local-apply step of update_lww_register, increment_counter or add_to_set
\* the matching read reflects the write: the register read is the value, the
\* counter has grown by the amount, the set listing contains the element.
C15_ReadYourWrites ==
    [][\A d \in Replicas : LocalApplyRan(d) => ReadReflectsWrite(d)]_vars

\* The floor under what a local apply that returned Ok leaves in the state,
\* whatever is merged afterwards: the register holds a write at least as recent
\* as the call's, the counter has the key, the set has the element.  It does
\* not say that the read is the written value: an ignored write and a later
\* merge both satisfy it.
LocalTargetPresent(d) ==
    LET op == calls[d].op
    IN  IF op.type = "LWWRegister"
        THEN /\ op.key \in DOMAIN registers[d]
             /\ registers[d][op.key].timestamp >= op.timestamp
        ELSE IF op.type = "GCounter"
        THEN op.key \in DOMAIN counters[d]
        ELSE op.value \in MembersOf(sets[d], op.key)

\* The call on d takes a step of its publishing: the signer's key, the
\* encryption, a send attempt, a retry delay, or the return that ends it.
PublishingStep(d) == Publishing(d) /\ calls'[d] # calls[d]

\* The step changes nothing in the three replicated types of d.
LocalStateKept(d) ==
    /\ registers'[d] = registers[d]
    /\ counters'[d] = counters[d]
    /\ sets'[d] = sets[d]

\* Every send attempt of the call on d has been made and has failed.
AllAttemptsFailed(d) ==
    /\ calls[d].attempts = max_retries
    /\ calls[d].retry_count = max_retries

\* The call returns the transport's error exactly when all max_retries send
\* attempts failed, its event reached no relay, and no step of the publishing,
\* the failing return included, changes the three types of the device.
PartialFailureKeepsLocalState ==
    /\ [](\A d \in Replicas :
             /\ AllAttemptsFailed(d) <=> calls[d].result = "Client"
             /\ calls[d].result = "Client" =>
                    (CallReturned(d) /\ calls[d].event \notin net))
    /\ [][\A d \in Replicas : PublishingStep(d) => LocalStateKept(d)]_vars

\* C16: when every send attempt of a mutation call fails, the call returns
\* the transport's error, and the local read still reflects the new value: the
\* local apply made before the publishing has put the write where the matching
\* read finds it, and no step of the publishing, the failing return included,
\* changes the three types of the device.
C16_PartialFailure ==
    /\ PartialFailureKeepsLocalState
    /\ [][\A d \in Replicas : LocalApplyRan(d) => ReadReflectsWrite(d)]_vars

\* A call whose write the register ignored has failed all its send attempts:
\* it reports the transport's error and the read is another value.
PartialFailureAfterIgnoredWrite ==
    /\ calls["d1"].result = "Client"
    /\ calls["d1"].op.type = "LWWRegister"
    /\ calls["d1"].op.key \in DOMAIN registers["d1"]
    /\ registers["d1"][calls["d1"].op.key].timestamp = calls["d1"].op.timestamp
    /\ get_register_value("d1", calls["d1"].op.key) # Some(calls["d1"].op.value)

RetryBounds(d) ==
    LET c == calls[d]
    IN  /\ c.attempts <= max_retries
        /\ c.sleeps <= max_retries - 1
        /\ c.pc = "send" => c.sleeps = c.attempts /\ c.attempts = c.retry_count
        /\ c.pc = "sleep" => c.sleeps = c.attempts - 1 /\ c.attempts = c.retry_count
        /\ (CallReturned(d) /\ c.attempts > 0) => c.sleeps = c.attempts - 1
        /\ c.attempts = 0 => c.sleeps = 0
        /\ (c.attempts = max_retries /\ c.retry_count = max_retries)
              => (CallReturned(d) /\ c.result = "Client")
        /\ c.result = "Client" => c.attempts = max_retries

\* A send is a step of a call that has not returned, and sends that call's
\* event; a returned call does not move until the next call starts.
SendOnlyInsideCall ==
    /\ \A d \in Replicas :
          calls'[d].attempts > calls[d].attempts =>
              /\ calls[d].pc = "send"
              /\ calls'[d].attempts = calls[d].attempts + 1
              /\ calls'[d].event = calls[d].event
    /\ net' # net =>
          \E d \in Replicas : calls[d].pc = "send" /\ net' = net \cup {calls[d].event}
    /\ \A d \in Replicas :
          (CallReturned(d) /\ calls'[d] # calls[d]) =>
              calls'[d] = [IdleCall EXCEPT !.pc = "apply", !.op = calls'[d].op]

\* C17: one call makes at most max_retries (3) send attempts and waits only
\* between two attempts (at most 2 waits, none after the last failure); a call
\* whose 3 attempts failed returns the failure; no send happens outside a call
\* that is still running; and every call that has started returns.
C17_BoundedRetry ==
    /\ [](\A d \in Replicas : RetryBounds(d))
    /\ [][SendOnlyInsideCall]_vars
    /\ (CallRunning("d1") ~> CallReturned("d1"))

C17_Witness ==
    /\ CallReturned("d1")
    /\ calls["d1"].result = "Client"
    /\ calls["d1"].attempts = 3
    /\ calls["d1"].sleeps = 2

\* C18: once a call has built its event or is at a send attempt or a retry
\* delay, its local apply has completed with Ok and the call holds none of the
\* three locks; no send attempt is made before the local apply.
C18_PublishAfterApply ==
    \A d \in Replicas :
        (Publishing(d) \/ calls[d].attempts > 0 \/ calls[d].event # NoEvent) =>
            /\ calls[d].local = "Ok"
            /\ \A l \in LockNames : locks[d][l] # "call"

C18_Witness ==
    /\ calls["d1"].pc = "send"
    /\ calls["d1"].attempts = 1
    /\ calls["d1"].local = "Ok"
    /\ locks["d1"][LockOf(calls["d1"].op)] = "ingest"

\* C19: a call whose local apply did not come back with Ok (an error, or a
\* panic of the apply or of lock().unwrap()) ends with that outcome, has built
\* no event and has made no send attempt and no wait.
C19_ApplyErrorSkipsPublish ==
    \A d \in Replicas :
        calls[d].local \notin {"none", "Ok"} =>
            /\ CallReturned(d)
            /\ calls[d].result = calls[d].local
            /\ calls[d].event = NoEvent
            /\ calls[d].attempts = 0
            /\ calls[d].sleeps = 0
            /\ calls[d].retry_count = 0

C19_Witness ==
    /\ CallReturned("d1")
    /\ calls["d1"].local = "panic"
    /\ calls["d1"].result = "panic"
    /\ calls["d1"].attempts = 0
    /\ net \cap ForeignEvents = net

(***************************************************************************)
(* Claims about process_event.                                             *)
(***************************************************************************)
Ingesting(d) == ingest[d].pc # "idle"

DroppedAsOtherKind(d) ==
    (Ingesting(d) /\ ingest[d].event.kind # crdt_kind) =>
        /\ ingest[d].pc = "done"
        /\ ingest[d].result = "Ok"
        /\ ingest[d].op = NoOp

TakesOtherKind(d) ==
    /\ ingest'[d] # ingest[d]
    /\ ingest'[d].event.kind # crdt_kind

\* C20: process_event on an event of another kind than crdt_kind returns Ok at
\* once: it never reaches the decryption or the decoding, takes no lock, and
\* leaves the register, counter and set state as they were.
C20_OtherKindDropped ==
    /\ [](\A d \in Replicas : DroppedAsOtherKind(d))
    /\ [][\A d \in Replicas :
             TakesOtherKind(d) => UNCHANGED <<registers, counters, sets, poisoned, locks>>]_vars

C20_Witness ==
    /\ ingest["d1"].pc = "done"
    /\ ingest["d1"].event.kind = OtherKind
    /\ ContainsIv(ingest["d1"].event.content)
    /\ ingest["d1"].result = "Ok"
    /\ DOMAIN counters["d1"] = {}

\* The content of event e gives d no operation whatever the signer does: it is
\* marked as encrypted and is no ciphertext of d's key and the sender's, or the
\* text to be decoded is not the serialization of an operation.
FailsToDecode(d, e) ==
    IF ContainsIv(e.content)
    THEN LET plain == nip04_decrypt(keys_of[d], e.pubkey, e.content, TRUE)
         IN  ~plain.ok \/ ~op_from_json(plain.text).ok
    ELSE ~op_from_json(e.content.plain).ok

Undecodable(d) ==
    /\ Ingesting(d)
    /\ ingest[d].event.kind = crdt_kind
    /\ FailsToDecode(d, ingest[d].event)

\* process_event has returned Err(SerializationError) for its event.
DroppedAsSerializationError(d) ==
    ingest[d] = [pc |-> "done", event |-> ingest[d].event, op |-> NoOp,
                 result |-> "SerializationError"]

SerializationErrorOnly(d) ==
    /\ Undecodable(d) =>
          \/ ingest[d].pc = "decrypt" /\ ingest[d].op = NoOp /\ ingest[d].result = "none"
          \/ DroppedAsSerializationError(d)
    /\ (Ingesting(d) /\ ingest[d].result = "SerializationError") =>
          /\ DroppedAsSerializationError(d)
          /\ ingest[d].event.kind = crdt_kind
          /\ ContainsIv(ingest[d].event.content) \/ FailsToDecode(d, ingest[d].event)

\* The step of d's ingestion that follows the signer's answer: on Err, the
\* signer's own failure on a ciphertext made for d included, the event is
\* dropped with SerializationError; on Ok the decrypted text is decoded.
DecryptionSettles(d) ==
    LET e == ingest[d].event
    IN  \/ DroppedAsSerializationError(d)' /\ ingest'[d].event = e
        \/ /\ nip04_decrypt(keys_of[d], e.pubkey, e.content, TRUE).ok
           /\ ingest'[d] = Decoded(e, e.content.plain)

\* C21: process_event on an event of the CRDT kind whose content fails
\* decryption (the signer returns Err, be the ciphertext bad or good) or does
\* not decode into an operation ends with SerializationError and with no other
\* result, and SerializationError has no other cause; no step of such an
\* ingestion changes the register, counter or set state, poisons or takes a
\* lock; and it is not tried again: the ingestion moves on only when it is
\* handed its next event.
C21_UndecodableDropped ==
    /\ [](\A d \in Replicas : SerializationErrorOnly(d))
    /\ [][\A d \in Replicas :
             /\ (ingest'[d] # ingest[d] /\ ingest[d].pc = "decrypt")
                    => DecryptionSettles(d)
             /\ (ingest'[d] # ingest[d]
                   /\ (Undecodable(d)' \/ ingest'[d].pc = "decrypt"
                         \/ ingest'[d].result = "SerializationError"))
                    => UNCHANGED <<registers, counters, sets, poisoned, locks>>
             /\ (ingest'[d] # ingest[d] /\ ingest[d].result = "SerializationError")
                    => delivered'[d] # delivered[d]]_vars

\* The signer failed on a ciphertext made for d1 that carries an operation:
\* the event is dropped and nothing was merged.
C21_Witness ==
    /\ ingest["d1"].pc = "done"
    /\ ingest["d1"].event.kind = crdt_kind
    /\ ContainsIv(ingest["d1"].event.content)
    /\ ~FailsToDecode("d1", ingest["d1"].event)
    /\ DroppedAsSerializationError("d1")
    /\ registers["d1"] = EmptyMap /\ counters["d1"] = EmptyMap /\ sets["d1"] = EmptyMap

\* The ingestion on d applies its decoded operation in this step.
IngestApplies(d) == ingest[d].pc = "locked" /\ ingest'[d].pc = "done"

DispatchedByVariant(d) ==
    LET op == ingest[d].op
    IN  /\ locks[d][LockOf(op)] = "ingest"
        /\ IF op.type = "LWWRegister"
           THEN /\ registers'[d] = LWWRegister_apply_operation(registers[d], op).state
                /\ UNCHANGED <<counters, sets>>
           ELSE IF op.type = "GCounter"
           THEN /\ counters'[d] = GCounter_apply_operation(counters[d], op).state
                /\ UNCHANGED <<registers, sets>>
           ELSE /\ sets'[d] = GSet_apply_operation(sets[d], op).state
                /\ UNCHANGED <<registers, counters>>

\* C22: process_event applies a decoded operation to the replicated type of
\* its variant and to no other: the other two types stay as they were, and no
\* process_event call ends with InvalidOperation.
C22_DispatchByVariant ==
    /\ [](\A d \in Replicas :
             /\ ingest[d].result # "InvalidOperation"
             /\ ingest[d].pc \in {"merge", "locked"} => ingest[d].op \in CrdtOperation)
    /\ [][\A d \in Replicas : IngestApplies(d) => DispatchedByVariant(d)]_vars

C22_Witness ==
    /\ ingest["d1"].pc = "done"
    /\ ingest["d1"].op = ForeignWrite
    /\ ingest["d1"].result = "Ok"
    /\ get_register_value("d1", "k1") = Some("b")
    /\ counters["d1"] = EmptyMap /\ sets["d1"] = EmptyMap

(***************************************************************************)
(* Claims about the three mutexes.                                         *)
(***************************************************************************)
Tasks == {"call", "ingest", "read"}

\* A task holds at most one mutex, and the caller and the ingestion hold one
\* exactly from lock() to the end of apply_operation: the one of their
\* operation's variant.
LockDiscipline(d) ==
    /\ \A t \in Tasks : Cardinality(HeldBy(d, t)) <= 1
    /\ \A l \in LockNames : locks[d][l] \in Tasks \cup {"free"}
    /\ HeldBy(d, "call") =
          IF calls[d].pc = "locked" THEN {LockOf(calls[d].op)} ELSE {}
    /\ HeldBy(d, "ingest") =
          IF ingest[d].pc = "locked" THEN {LockOf(ingest[d].op)} ELSE {}

\* The mutex l is free, or the task that holds it can take the step that
\* releases it.
Obtainable(d, l) ==
    \/ locks[d][l] = "free"
    \/ locks[d][l] = "call" /\ ENABLED LocalApply(d)
    \/ locks[d][l] = "ingest" /\ ENABLED IngestApply(d)
    \/ locks[d][l] = "read" /\ ENABLED GetValue(d)

\* The mutex that the caller or the ingestion waits for can be obtained.
NoDeadlock(d) ==
    /\ calls[d].pc = "apply" => Obtainable(d, LockOf(calls[d].op))
    /\ ingest[d].pc = "merge" => Obtainable(d, LockOf(ingest[d].op))

\* C23: the three replicated types have a mutex each; in no state does a task
\* hold two of them, so none is ever taken by a task that holds another; and
\* the mutex that the caller or the ingestion waits for is free or its holder
\* (caller, ingestion or reader) can go on and release it: no deadlock.
C23_LockDiscipline == \A d \in Replicas : LockDiscipline(d) /\ NoDeadlock(d)

C23_Witness ==
    /\ calls["d1"].pc = "apply"
    /\ calls["d1"].op.type = "GCounter"
    /\ locks["d1"]["g_counters"] = "ingest"
    /\ locks["d1"]["lww_registers"] = "read"

\* C24: a caller that waits for the signer, the encryption, the transport or
\* the retry delay, and an ingestion that waits for the decryption, hold no
\* mutex; a mutex is held only between lock() and the end of the one
\* apply_operation or get_value call, and the holder's next step releases it.
C24_NoLockAcrossAwait ==
    /\ [](\A d \in Replicas :
             /\ (Publishing(d) \/ CallReturned(d) \/ calls[d].pc = "apply")
                    => HeldBy(d, "call") = {}
             /\ ingest[d].pc \in {"decrypt", "merge", "done", "idle"}
                    => HeldBy(d, "ingest") = {})
    /\ [][\A d \in Replicas :
             /\ (calls[d].pc = "locked" /\ calls'[d] # calls[d])
                    => HeldBy(d, "call")' = {}
             /\ (ingest[d].pc = "locked" /\ ingest'[d] # ingest[d])
                    => HeldBy(d, "ingest")' = {}
             /\ (HeldBy(d, "read") # {} /\ HeldBy(d, "read")' # HeldBy(d, "read"))
                    => (HeldBy(d, "read")' = {} /\ UNCHANGED <<calls, ingest>>)]_vars

C24_Witness ==
    /\ calls["d1"].pc = "sleep"
    /\ calls["d1"].op.type = "GCounter"
    /\ ingest["d1"].pc = "locked"
    /\ locks["d1"]["g_counters"] = "ingest"
    /\ HeldBy("d1", "call") = {}

(***************************************************************************)
(* Claims about cancellation.                                              *)
(***************************************************************************)
Cancelled(d) == calls[d].result = "cancelled"

\* C25: a mutation call is cancelled only at a suspension point of its
\* publishing, where its local apply has completed with Ok; the cancellation
\* changes none of the three types, as no other step of the publishing does,
\* and what the local apply put in place is there after it, whatever is merged
\* later.
C25_CancellationKeepsLocal ==
    /\ [](\A d \in Replicas :
             Cancelled(d) =>
                 /\ CallReturned(d)
                 /\ calls[d].local = "Ok"
                 /\ HeldBy(d, "call") = {}
                 /\ LocalTargetPresent(d))
    /\ [][\A d \in Replicas :
             /\ (Cancelled(d)' /\ ~Cancelled(d)) =>
                    /\ Suspended(d)
                    /\ calls[d].local = "Ok"
                    /\ UNCHANGED <<registers, counters, sets, poisoned, locks>>
             /\ PublishingStep(d) => LocalStateKept(d)]_vars

C25_Witness ==
    /\ Cancelled("d1")
    /\ calls["d1"].attempts = 1
    /\ calls["d1"].sleeps = 0
    /\ calls["d1"].event \notin net
    /\ calls["d1"].op.type = "LWWRegister"
    /\ get_register_value("d1", "k1") = Some(calls["d1"].op.value)

(***************************************************************************)
(* Claims about the published event.                                       *)
(***************************************************************************)
HandedToTransport(d) == calls[d].pc \in {"send", "sleep"} \/ calls[d].attempts > 0

\* C26: the event of a mutation call, at every send attempt and for each of
\* the three operation variants, has the manager's CRDT kind and the marker
\* tag ("t", "nostr-crdt"), so it matches the manager's get_filter; so does
\* every event of the manager's identity that reached the relays.
C26_PublishedMatchesFilter ==
    \A d \in Replicas :
        /\ HandedToTransport(d) =>
               /\ calls[d].event.kind = crdt_kind
               /\ MarkerTag \in calls[d].event.tags
               /\ MatchEvent(get_filter, calls[d].event)
        /\ \A e \in net :
               e.pubkey = keys_of[d] =>
                   e.kind = crdt_kind /\ MarkerTag \in e.tags /\ MatchEvent(get_filter, e)

C26_Witness ==
    /\ calls["d1"].op.type = "GSet"
    /\ calls["d1"].attempts = 3
    /\ calls["d1"].result = "Ok"
    /\ calls["d1"].event \in net
    /\ MatchEvent(get_filter, calls["d1"].event)

CredentialError(d) == calls[d].result \in {"Signer", "EventBuilder"}

\* C27: a mutation call whose public_key, nip04_encrypt or to_event fails
\* returns that error in the same step, with no send attempt and no retry
\* delay made, and no event of it handed to the relays.
C27_CredentialErrorNotRetried ==
    /\ [](\A d \in Replicas :
             CredentialError(d) =>
                 /\ CallReturned(d)
                 /\ calls[d].attempts = 0
                 /\ calls[d].sleeps = 0
                 /\ calls[d].retry_count = 0
                 /\ calls[d].event = NoEvent)
    /\ [][\A d \in Replicas :
             (CredentialError(d)' /\ ~CredentialError(d)) =>
                 /\ calls[d].pc \in {"pubkey", "encrypt"}
                 /\ calls[d].attempts = 0 /\ calls[d].sleeps = 0
                 /\ CallReturned(d)'
                 /\ net' = net]_vars

C27_Witness ==
    /\ calls["d1"].result = "EventBuilder"
    /\ CallReturned("d1")
    /\ calls["d1"].local = "Ok"
    /\ calls["d1"].attempts = 0
    /\ calls["d1"].op.type = "GCounter"

(***************************************************************************)
(* Claims about concurrent callers and ingestion.                          *)
(***************************************************************************)
\* One increment_counter call and one process_event of a CounterIncrement on
\* the same key have both been through their apply_operation on d.
BothIncrementsDone(d) ==
    /\ ncalls = 1
    /\ BagCardinality(delivered[d]) = 1
    /\ calls[d].op.type = "GCounter"
    /\ calls[d].pc \notin {"idle", "apply", "locked"}
    /\ ingest[d].pc = "done"
    /\ ingest[d].op.type = "GCounter"
    /\ ingest[d].op.key = calls[d].op.key

SumOfBoth(d) == WideAdd(Wide(calls[d].op.increment), Wide(ingest[d].op.increment))

\* C28: when an increment_counter call and a process_event carrying a
\* CounterIncrement on the same key have run concurrently on a fresh manager,
\* in whatever interleaving of their steps, the total of the key is the sum
\* of the two amounts.
C28_NoLostUpdates ==
    \A d \in Replicas :
        BothIncrementsDone(d) =>
            /\ d \notin poisoned
            /\ calls[d].op.key \in DOMAIN counters[d]
            /\ Wide(counters[d][calls[d].op.key]) = SumOfBoth(d)

\* The same with the sum of the two amounts below 2^64.
NoLostUpdatesInRange ==
    \A d \in Replicas :
        (BothIncrementsDone(d) /\ SumOfBoth(d)[NumLimbs + 1] = 0) =>
            /\ d \notin poisoned
            /\ calls[d].op.key \in DOMAIN counters[d]
            /\ Wide(counters[d][calls[d].op.key]) = SumOfBoth(d)

\* The ingestion on d merges, in this step, an operation of the variant and
\* on the key of the first mutation call of d, after the call's local apply
\* and before the call has handed its event to the relays; nothing else has
\* been applied on d before the two.
MergeInterleaves(d) ==
    /\ ingest[d].pc = "locked" /\ ingest'[d].pc = "done"
    /\ ncalls = 1 /\ BagCardinality(delivered[d]) = 1
    /\ Publishing(d) /\ calls[d].local = "Ok" /\ calls[d].attempts = 0
    /\ ingest[d].op.type = calls[d].op.type
    /\ ingest[d].op.key = calls[d].op.key

\* The three types of a fresh manager after the inbound operation and then
\* the call's operation have been applied, in this order.
MergeFirst(d) ==
    LET iop == ingest[d].op
        cop == calls[d].op
        r1 == LWWRegister_apply_operation(EmptyMap, iop)
        r2 == LWWRegister_apply_operation(r1.state, cop)
        c1 == GCounter_apply_operation(EmptyMap, iop)
        c2 == GCounter_apply_operation(c1.state, cop)
        s1 == GSet_apply_operation(EmptyMap, iop)
        s2 == GSet_apply_operation(s1.state, cop)
    IN  [registers |-> r2.state, counters |-> c2.state, sets |-> s2.state,
         poison |-> cop.type = "GCounter" /\ "panic" \in {c1.result, c2.result}]

ReadOf(registers_, counters_, sets_, poison, op) ==
    IF op.type = "LWWRegister" THEN LWWRegister_get_value(registers_, op.key)
    ELSE IF op.type = "GCounter"
    THEN IF poison THEN "panic" ELSE GCounter_get_value(counters_, op.key)
    ELSE GSet_get_value(sets_, op.key)

SameReads(d) ==
    LET m == MergeFirst(d)
    IN  ReadOf(registers'[d], counters'[d], sets'[d], d \in poisoned', calls[d].op)
            = ReadOf(m.registers, m.counters, m.sets, m.poison, calls[d].op)

TiedWrites(d) ==
    /\ calls[d].op.type = "LWWRegister"
    /\ calls[d].op.timestamp = ingest[d].op.timestamp
    /\ calls[d].op.value # ingest[d].op.value

\* C29: an inbound merge on the key of a mutation call, taken between the
\* call's local apply and its publish, leaves the read of that key as it
\* would be had the merge been applied before the local apply.
C29_InterleavedMergeCommutes ==
    [][\A d \in Replicas : MergeInterleaves(d) => SameReads(d)]_vars

\* C29 as the code has it: the reads are the same for the counter, for the
\* register unless the two writes carry equal timestamps and different
\* values (then the one applied first stays), and for the set up to the
\* order of the listing: the members are the same.
C29_InterleavedMergeCommutesButTies ==
    [][\A d \in Replicas :
          MergeInterleaves(d) =>
              LET m == MergeFirst(d)
              IN  IF calls[d].op.type = "GSet"
                  THEN MembersOf(sets'[d], calls[d].op.key)
                           = MembersOf(m.sets, calls[d].op.key)
                  ELSE IF TiedWrites(d)
                  THEN /\ get_register_value(d, calls[d].op.key)' = Some(calls[d].op.value)
                       /\ LWWRegister_get_value(m.registers, calls[d].op.key)
                              = Some(ingest[d].op.value)
                  ELSE SameReads(d)]_vars

C29_Witness ==
    /\ calls["d1"].pc = "send" /\ calls["d1"].attempts = 0
    /\ ingest["d1"].pc = "done"
    /\ calls["d1"].op.type = "GSet" /\ ingest["d1"].op.type = "GSet"
    /\ calls["d1"].op.key = ingest["d1"].op.key
    /\ ListingOf(sets["d1"], "k1") = <<calls["d1"].op.value, ingest["d1"].op.value>>
    /\ calls["d1"].op.value # ingest["d1"].op.value

(***************************************************************************)
(* Claims about the retry loop.                                            *)
(***************************************************************************)
InRetryLoop(d) == calls[d].pc \in {"send", "sleep"}
OwnEvents(d) == {e \in net : e.pubkey = keys_of[d] /\ e.id = calls[d].event.id}

\* C30: the send attempt that succeeds ends the call at once with Ok and the
\* id of the event, which is then with the relays; no attempt and no delay
\* follows it; and from the first attempt to the return of the call the
\* event is the same, id and content, at every attempt.
C30_RetrySendsSameEvent ==
    /\ [](\A d \in Replicas :
             calls[d].result = "Ok" =>
                 /\ CallReturned(d)
                 /\ calls[d].event \in net
                 /\ OwnEvents(d) = {calls[d].event}
                 /\ calls[d].attempts = calls[d].retry_count + 1
                 /\ calls[d].sleeps = calls[d].retry_count)
    /\ [][\A d \in Replicas :
             /\ InRetryLoop(d) =>
                    /\ calls'[d].event = calls[d].event
                    /\ net' \subseteq net \cup {calls[d].event}
                    /\ (calls[d].event \in net' /\ calls[d].pc = "send") =>
                           (calls'[d].pc = "returned" /\ calls'[d].result = "Ok")
             /\ (calls[d].result = "Ok" /\ calls'[d].result = "Ok") =>
                    /\ calls'[d].attempts = calls[d].attempts
                    /\ calls'[d].sleeps = calls[d].sleeps]_vars

C30_Witness ==
    /\ calls["d1"].result = "Ok"
    /\ calls["d1"].attempts = 2
    /\ calls["d1"].sleeps = 1
    /\ calls["d1"].event \in net
    /\ calls["d1"].event.id = 1

(***************************************************************************)
(* Claims about the listing of a GSet.                                     *)
(***************************************************************************)
NoElementTwice(seq) == \A i, j \in 1..Len(seq) : seq[i] = seq[j] => i = j
IsPrefix(short, long) ==
    Len(short) <= Len(long) /\ SubSeq(long, 1, Len(short)) = short

\* C31: GSet::get_value renders the members of a key in the order in which
\* they were first inserted: every apply keeps the listing it found as the
\* head of the new one, so an element never moves; and no listing holds an
\* element twice.
C31_ListingInInsertionOrder ==
    /\ \A d \in Replicas, k \in Keys :
           /\ NoElementTwice(ListingOf(sets[d], k))
           /\ GSet_get_value(sets[d], k) =
                  IF k \in DOMAIN sets[d] THEN Some(vec_to_json(ListingOf(sets[d], k)))
                  ELSE None
    /\ last.kind = "gs" =>
           \A k \in Keys :
               IsPrefix(ListingOf(last.before, k), ListingOf(sets[last.dev], k))

C31_Witness ==
    /\ LastIsSetAdd
    /\ last.op.key = "k1"
    /\ last.op \in last.seen
    /\ last.op.value = "b"
    /\ ListingOf(sets["d1"], "k1") = <<"a", "b">>
    /\ GSet_get_value(sets["d1"], "k1") = Some("[\"a\",\"b\"]")

\* C32: two GSet devices that have applied the additions of A, B and C, each
\* in its own order, return equal results from get_value("test_set"): the
\* comparison the demo prints as "Merge successful" is true.
C32_DemoReadsEqual ==
    BothAppliedPool =>
        GSet_get_value(sets["d1"], "test_set") = GSet_get_value(sets["d2"], "test_set")

\* What the two devices of the demo do have: the same members, and get_value
\* results that are equal exactly when both inserted the elements in the same
\* order; after A,B,C on one and C,A,B on the other the results are the two
\* different arrays.
DemoMembersEqual ==
    BothAppliedPool =>
        /\ \A d \in Replicas : MembersOf(sets[d], "test_set") = DemoValues
        /\ \A d \in Replicas : Len(ListingOf(sets[d], "test_set")) = 3
        /\ (GSet_get_value(sets["d1"], "test_set") = GSet_get_value(sets["d2"], "test_set"))
               <=> (sets["d1"]["test_set"] = sets["d2"]["test_set"])
        /\ (sets["d1"]["test_set"] = <<"A", "B", "C">>
              /\ sets["d2"]["test_set"] = <<"C", "A", "B">>) =>
               /\ GSet_get_value(sets["d1"], "test_set") = Some("[\"A\",\"B\",\"C\"]")
               /\ GSet_get_value(sets["d2"], "test_set") = Some("[\"C\",\"A\",\"B\"]")

\* The run of the demo: A,B,C on one device, C,A,B on the other.
DemoOrdersDiffer ==
    /\ BothAppliedPool
    /\ sets["d1"]["test_set"] = <<"A", "B", "C">>
    /\ sets["d2"]["test_set"] = <<"C", "A", "B">>
    /\ GSet_get_value(sets["d1"], "test_set") # GSet_get_value(sets["d2"], "test_set")

(***************************************************************************)
(* Claims about the keys of a replicated type.                             *)
(***************************************************************************)
ReadOfKind(kind, self, k) ==
    IF kind = "lww" THEN LWWRegister_get_value(self, k)
    ELSE IF kind = "gc" THEN GCounter_get_value(self, k)
    ELSE GSet_get_value(self, k)

Targeted(d) == {o.key : o \in applied[d] \cup BagToSet(applied_count[d])}

\* C33: an apply_operation on key k, in each of the three types, leaves every
\* other key as it was, absent or with the same stored state and the same
\* read; and a key that no applied operation has named reads as None in all
\* three.
C33_KeyIndependence ==
    /\ last.kind \in {"lww", "gc", "gs"} =>
          LET after == StateOf(last.kind, last.dev)
          IN  \A k \in Keys \ {last.op.key} :
                  /\ (k \in DOMAIN after) <=> (k \in DOMAIN last.before)
                  /\ k \in DOMAIN after => after[k] = last.before[k]
                  /\ ReadOfKind(last.kind, after, k) = ReadOfKind(last.kind, last.before, k)
    /\ \A d \in Replicas : \A k \in Keys \ Targeted(d) :
          /\ LWWRegister_get_value(registers[d], k) = None
          /\ GCounter_get_value(counters[d], k) = None
          /\ GSet_get_value(sets[d], k) = None

C33_Witness ==
    /\ last.kind = "gc"
    /\ last.op.type = "GCounter"
    /\ last.op.key = "k2"
    /\ last.result = "Ok"
    /\ "k1" \in DOMAIN last.before
    /\ "k2" \notin DOMAIN last.before
    /\ counters["d1"]["k1"] = last.before["k1"]
    /\ GCounter_get_value(counters["d1"], "k2") # None

(***************************************************************************)
(* Claims about the events process_event accepts.                          *)
(***************************************************************************)
MergedInPlace(d, op) ==
    IF op.type = "LWWRegister"
    THEN /\ op.key \in DOMAIN registers[d]
         /\ registers[d][op.key].timestamp >= op.timestamp
    ELSE IF op.type = "GCounter"
    THEN op.key \in DOMAIN counters[d]
    ELSE op.value \in MembersOf(sets[d], op.key)

\* C34: process_event on an event of the CRDT kind whose content is the
\* serialization of a well-formed operation, not encrypted, returns Ok and
\* has applied the operation to the type of its variant.
C34_PlaintextMerged ==
    \A d \in Replicas, op \in PlainOps :
        (ingest[d].pc = "done" /\ ingest[d].event = PlainEventOf(op)) =>
            /\ ingest[d].result = "Ok"
            /\ ingest[d].op = op
            /\ MergedInPlace(d, op)

\* The same for operations whose strings do not hold "?iv=" and whose
\* increment does not take the total past the u64 range.
PlaintextMergedUnlessMarked ==
    \A d \in Replicas, op \in PlainOps :
        (ingest[d].pc = "done" /\ ingest[d].event = PlainEventOf(op)
           /\ ~JsonHasIv(op_to_json(op)) /\ ingest[d].result # "panic") =>
            /\ ingest[d].result = "Ok"
            /\ ingest[d].op = op
            /\ MergedInPlace(d, op)

Unmarked(d) == ingest[d].pc # "idle" /\ MarkerTag \notin ingest[d].event.tags

\* C35: process_event goes on to decrypt or decode, and merges, only when
\* the event carries the marker tag ("t", "nostr-crdt"): an event without it
\* is dropped with no operation decoded from it and nothing waiting to be
\* applied.
C35_UnmarkedDropped ==
    \A d \in Replicas :
        Unmarked(d) =>
            /\ ingest[d].pc = "done"
            /\ ingest[d].op = NoOp
            /\ ingest[d].result = "Ok"

\* The first increment_counter call of d has published its event, and that
\* event, and nothing else, has come back to d through process_event.
OwnEchoMerged(d) ==
    /\ ncalls = 1
    /\ calls[d].op.type = "GCounter"
    /\ calls[d].result = "Ok"
    /\ BagCardinality(delivered[d]) = 1
    /\ ingest[d].pc = "done"
    /\ ingest[d].event = calls[d].event
    /\ MatchEvent(get_filter, ingest[d].event)

\* C36: after increment_counter(key, n) on a fresh manager and the delivery
\* of its own published event back to it, the total of key is n: the
\* increment is counted once.
C36_OwnEchoCountedOnce ==
    \A d \in Replicas :
        OwnEchoMerged(d) =>
            /\ calls[d].op.key \in DOMAIN counters[d]
            /\ counters[d][calls[d].op.key] = calls[d].op.increment
            /\ get_counter_value(d, calls[d].op.key)
                   = Some(u64_to_string(calls[d].op.increment))

WriteOf(op) == [value |-> op.value, timestamp |-> op.timestamp]
PublishedWrite(d) ==
    /\ calls[d].op.type = "LWWRegister"
    /\ calls[d].result = "Ok"
    /\ calls[d].event \in net

\* C37: the local-apply step of every update_lww_register call that goes on
\* to publish stores the call's value and timestamp in the manager's own
\* register; so a write that has been published is never found beside a
\* stored write of the same timestamp and another value (which only a write
\* that was ignored leaves behind).
C37_PublishedWasAdopted ==
    /\ [](\A d \in Replicas :
             PublishedWrite(d) =>
                 ~ /\ calls[d].op.key \in DOMAIN registers[d]
                   /\ registers[d][calls[d].op.key].timestamp = calls[d].op.timestamp
                   /\ registers[d][calls[d].op.key].value # calls[d].op.value)
    /\ [][\A d \in Replicas :
             (calls[d].op.type = "LWWRegister" /\ LocalApplyRan(d)) =>
                 /\ calls[d].op.key \in DOMAIN registers'[d]
                 /\ registers'[d][calls[d].op.key] = WriteOf(calls[d].op)]_vars

\* The published write that the publisher's own register never held.
PublishedButIgnored ==
    /\ PublishedWrite("d1")
    /\ ncalls = 1
    /\ registers["d1"]["k1"].timestamp = calls["d1"].op.timestamp
    /\ registers["d1"]["k1"].value # calls["d1"].op.value

(***************************************************************************)
(* Claims about EventPaginator.                                            *)
(***************************************************************************)
Called == paginator'.calls # paginator.calls
ReturnedPage == paginator'.result.returned = "Some"

\* C38: a call of next_page returns None exactly by setting or finding done;
\* once done is set it stays set, and whatever is done with the paginator
\* afterwards issues no query, suspends nowhere and changes no field: every
\* later call returns None; and a page that is returned holds an event that
\* was not in the page returned before it, however many futures were
\* dropped in between.
C38_DoneIsAbsorbing ==
    /\ [](/\ paginator.result = ReturnedNone <=> paginator.done
          /\ paginator.done => paginator.pc = "idle")
    /\ [][paginator.done =>
              /\ paginator'.done
              /\ paginator'.pc = "idle"
              /\ paginator'.result = ReturnedNone
              /\ paginator'.queries = paginator.queries
              /\ paginator'.dropped = paginator.dropped
              /\ paginator'.last_event_ids = paginator.last_event_ids
              /\ paginator'.oldest_timestamp = paginator.oldest_timestamp
              /\ paginator'.filters = paginator.filters]_vars
    /\ [][(Called /\ ReturnedPage) =>
              /\ ~paginator.done
              /\ \E e \in paginator'.result.page : e.id \notin paginator.last_event_ids
              /\ paginator'.last_event_ids = {e.id : e \in paginator'.result.page}]_vars

C38_Witness ==
    /\ paginator.done
    /\ paginator.result = ReturnedNone
    /\ paginator.calls = 3
    /\ paginator.dropped = 1
    /\ paginator.queries = 3
    /\ paginator.last_event_ids = {1, 2}
    /\ paginator.oldest_timestamp = Some(2)

====
